---- MODULE Spec2Model ----
(***************************************************************************)
(* Bucket matcher of the PolyWeather dashboard (frontend/src/App.vue):     *)
(* parseOutcomeTitle turns a free-text outcome label into numeric bounds,  *)
(* findOutcomeForValue picks the outcome that represents a temperature,    *)
(* highestOutcomeKey is the key of the row the dashboard highlights.       *)
(*                                                                         *)
(* Text is a sequence of one-character strings.  Three characters that are *)
(* not ASCII are written by name: "deg" is the degree sign, "endash" and   *)
(* "emdash" are the en dash and the em dash.                               *)
(*                                                                         *)
(* A nullable value is a sequence of length 0 (null) or 1 (the value), so  *)
(* that null can be compared with a value of any type.                     *)
(***************************************************************************)
EXTENDS Integers, Sequences, FiniteSets, TLC

NULL == <<>>
Some(x) == <<x>>
IsNull(x) == x = <<>>
IsNumber(x) == x # <<>>
Val(x) == x[1]

(***************************************************************************)
(* Characters and the String methods the parser uses.                      *)
(***************************************************************************)
Digits == {"0", "1", "2", "3", "4", "5", "6", "7", "8", "9"}
Whitespace == {" ", "\t"}

DigitVal(c) ==
  CASE c = "0" -> 0 [] c = "1" -> 1 [] c = "2" -> 2 [] c = "3" -> 3
    [] c = "4" -> 4 [] c = "5" -> 5 [] c = "6" -> 6 [] c = "7" -> 7
    [] c = "8" -> 8 [] c = "9" -> 9

UpperToLower ==
  [A |-> "a", B |-> "b", C |-> "c", D |-> "d", E |-> "e", F |-> "f", G |-> "g",
   H |-> "h", I |-> "i", L |-> "l", N |-> "n", O |-> "o", R |-> "r", T |-> "t",
   V |-> "v", W |-> "w"]

LowerChar(c) == IF c \in DOMAIN UpperToLower THEN UpperToLower[c] ELSE c

\* the characters of s, each lower-cased (as a tuple)
toLowerCase(s) == <<>> \o [i \in 1..Len(s) |-> LowerChar(s[i])]

includes_PrefixOnly(text, sub) ==
  Len(sub) <= Len(text) /\ SubSeq(text, 1, Len(sub)) = sub

includes(text, sub) ==
  \E i \in 1..(Len(text) - Len(sub) + 1) : SubSeq(text, i, i + Len(sub) - 1) = sub

(***************************************************************************)
(* Number.parseInt(s, 10): optional leading whitespace, an optional sign,  *)
(* then the longest run of decimal digits; NaN (null here) without digits. *)
(***************************************************************************)
RECURSIVE SkipWhitespace(_, _)
SkipWhitespace(s, i) ==
  IF i <= Len(s) /\ s[i] \in Whitespace THEN SkipWhitespace(s, i + 1) ELSE i

RECURSIVE DigitsValue(_, _, _)
DigitsValue(s, i, acc) ==
  IF i <= Len(s) /\ s[i] \in Digits
    THEN DigitsValue(s, i + 1, 10 * acc + DigitVal(s[i]))
    ELSE acc

parseInt(s) ==
  LET i == SkipWhitespace(s, 1)
      signed == i <= Len(s) /\ s[i] \in {"-", "+"}
      j == IF signed THEN i + 1 ELSE i
      magnitude == DigitsValue(s, j, 0)
  IN  IF j <= Len(s) /\ s[j] \in Digits
        THEN Some(IF signed /\ s[i] = "-" THEN 0 - magnitude ELSE magnitude)
        ELSE NULL

(***************************************************************************)
(* Regular expressions as the parser uses them: a sequence of items, each  *)
(* a character class with a quantifier, an alternation of literals, or the *)
(* opening/closing of a capture group.  Matching is the backtracking       *)
(* search of String.prototype.match: leftmost start, greedy quantifiers,   *)
(* alternatives tried in order.                                            *)
(***************************************************************************)
One(S) == [kind |-> "chr", set |-> S, q |-> "one", g |-> 0, alts |-> <<>>]
Opt(S) == [kind |-> "chr", set |-> S, q |-> "opt", g |-> 0, alts |-> <<>>]
Star(S) == [kind |-> "chr", set |-> S, q |-> "star", g |-> 0, alts |-> <<>>]
Alt(as) == [kind |-> "alt", set |-> {}, q |-> "one", g |-> 0, alts |-> as]
Open(n) == [kind |-> "open", set |-> {}, q |-> "one", g |-> n, alts |-> <<>>]
Close(n) == [kind |-> "close", set |-> {}, q |-> "one", g |-> n, alts |-> <<>>]
Lit(s) == [i \in 1..Len(s) |-> One({s[i]})]

NoMatch == NULL
NoCaptures == [n \in 1..2 |-> <<0, 0>>]

\* a ?? b (b is looked at only when a is null)
Coalesce(a, b) == IF a # NULL THEN a ELSE b

StartsWith(text, i, lit) ==
  /\ i + Len(lit) - 1 <= Len(text)
  /\ SubSeq(text, i, i + Len(lit) - 1) = lit

RECURSIVE MatchFrom(_, _, _, _, _)
RECURSIVE MatchAlt(_, _, _, _, _, _)

MatchFrom(re, text, k, i, caps) ==
  IF k > Len(re) THEN Some(caps)
  ELSE
    LET item == re[k]
        here == i <= Len(text) /\ text[i] \in item.set
    IN  CASE item.kind = "open" ->
               MatchFrom(re, text, k + 1, i, [caps EXCEPT ![item.g][1] = i])
          [] item.kind = "close" ->
               MatchFrom(re, text, k + 1, i, [caps EXCEPT ![item.g][2] = i])
          [] item.kind = "alt" -> MatchAlt(re, text, k, i, caps, 1)
          [] item.kind = "chr" /\ item.q = "one" ->
               IF here THEN MatchFrom(re, text, k + 1, i + 1, caps) ELSE NoMatch
          [] item.kind = "chr" /\ item.q = "opt" ->
               Coalesce(IF here THEN MatchFrom(re, text, k + 1, i + 1, caps) ELSE NoMatch,
                        MatchFrom(re, text, k + 1, i, caps))
          [] item.kind = "chr" /\ item.q = "star" ->
               Coalesce(IF here THEN MatchFrom(re, text, k, i + 1, caps) ELSE NoMatch,
                        MatchFrom(re, text, k + 1, i, caps))

MatchAlt(re, text, k, i, caps, a) ==
  IF a > Len(re[k].alts) THEN NoMatch
  ELSE Coalesce(IF StartsWith(text, i, re[k].alts[a])
                  THEN MatchFrom(re, text, k + 1, i + Len(re[k].alts[a]), caps)
                  ELSE NoMatch,
                MatchAlt(re, text, k, i, caps, a + 1))

RECURSIVE SearchFrom(_, _, _)
SearchFrom(re, text, i) ==
  IF i > Len(text) + 1 THEN NoMatch
  ELSE Coalesce(MatchFrom(re, text, 1, i, NoCaptures), SearchFrom(re, text, i + 1))

\* the array a successful match returns: group n is Groups(text, m)[n]
Groups(text, m) ==
  IF m = NoMatch THEN NULL
  ELSE Some([n \in 1..2 |-> SubSeq(text, Val(m)[n][1], Val(m)[n][2] - 1)])

\* text.match(re): null, or the captured groups
match(text, re) == Groups(text, SearchFrom(re, text, 1))

\* (-?\d+) as capture group n
IntGroup(n) == <<Open(n), Opt({"-"}), One(Digits), Star(Digits), Close(n)>>
\* \s*°?\s*c
UnitC == <<Star(Whitespace), Opt({"deg"}), Star(Whitespace), One({"c"})>>
\* \s*°?\s*c?
UnitOptC == <<Star(Whitespace), Opt({"deg"}), Star(Whitespace), Opt({"c"})>>
\* \s+
Spaces == <<One(Whitespace), Star(Whitespace)>>

\* /(-?\d+)\s*°?\s*c\s*(?:-|–|—|to)\s*(-?\d+)\s*°?\s*c/
RangeDashRe ==
  IntGroup(1) \o UnitC \o <<Star(Whitespace)>>
    \o <<Alt(<< <<"-">>, <<"endash">>, <<"emdash">>, <<"t", "o">> >>)>>
    \o <<Star(Whitespace)>> \o IntGroup(2) \o UnitC

\* /between\s+(-?\d+)\s*°?\s*c?\s+and\s+(-?\d+)\s*°?\s*c?/
RangeBetweenRe ==
  Lit(<<"b", "e", "t", "w", "e", "e", "n">>) \o Spaces \o IntGroup(1) \o UnitOptC
    \o Spaces \o Lit(<<"a", "n", "d">>) \o Spaces \o IntGroup(2) \o UnitOptC

SingleRe_Unsigned == <<Open(1), One(Digits), Star(Digits), Close(1)>> \o UnitC

\* /(-?\d+)\s*°?\s*c/
SingleRe == IntGroup(1) \o UnitC

OrBelow == <<"o", "r", " ", "b", "e", "l", "o", "w">>
OrLower == <<"o", "r", " ", "l", "o", "w", "e", "r">>
OrHigher == <<"o", "r", " ", "h", "i", "g", "h", "e", "r">>
OrAbove == <<"o", "r", " ", "a", "b", "o", "v", "e">>

(***************************************************************************)
(* ParsedOutcome.  repr can be a half-integer (the midpoint of a range);   *)
(* it is kept exactly as the number of halves: Half(x) is x / 2.           *)
(***************************************************************************)
Half(x) == [halves |-> x]
Whole(n) == Half(2 * n)
Min(a, b) == IF a <= b THEN a ELSE b
Max(a, b) == IF a >= b THEN a ELSE b

ParsedOutcome(lower, upper, repr) == [lower |-> lower, upper |-> upper, repr |-> repr]

\* lines 870-876: the bounds a and b of a matched range
rangeOutcome(a, b) ==
  IF a # NULL /\ b # NULL
    THEN Some(ParsedOutcome(Some(Min(Val(a), Val(b))), Some(Max(Val(a), Val(b))),
                            Half(Min(Val(a), Val(b)) + Max(Val(a), Val(b)))))
    ELSE NULL

\* lines 869-877: if (range) ...
rangeMatched(range) ==
  IF range = NULL THEN NULL
  ELSE rangeOutcome(parseInt(Val(range)[1]), parseInt(Val(range)[2]))

\* lines 866-877: the two range patterns
parseRange(text) ==
  rangeMatched(Coalesce(match(text, RangeDashRe), match(text, RangeBetweenRe)))

qualifiedOutcome_AboveFirst(text, n) ==
  IF n = NULL THEN NULL
  ELSE IF includes(text, OrHigher) \/ includes(text, OrAbove)
    THEN Some(ParsedOutcome(n, NULL, Whole(Val(n))))
  ELSE IF includes(text, OrBelow) \/ includes(text, OrLower)
    THEN Some(ParsedOutcome(NULL, n, Whole(Val(n))))
  ELSE Some(ParsedOutcome(n, n, Whole(Val(n))))

\* lines 882-890: the integer n of a single match and its qualifier
qualifiedOutcome(text, n) ==
  IF n = NULL THEN NULL
  ELSE IF includes(text, OrBelow) \/ includes(text, OrLower)
    THEN Some(ParsedOutcome(NULL, n, Whole(Val(n))))
  ELSE IF includes(text, OrHigher) \/ includes(text, OrAbove)
    THEN Some(ParsedOutcome(n, NULL, Whole(Val(n))))
  ELSE Some(ParsedOutcome(n, n, Whole(Val(n))))

\* lines 880-890: if (!single) return null; ...
singleMatched(text, single) ==
  IF single = NULL THEN NULL ELSE qualifiedOutcome(text, parseInt(Val(single)[1]))

\* lines 879-890: the single-integer pattern
parseSingle(text) == singleMatched(text, match(text, SingleRe))

\* lines 866-890, on the lower-cased text: a range returns first
parseText(text) == Coalesce(parseRange(text), parseSingle(text))

parseOutcomeTitle(title) ==
  IF IsNull(title) \/ Val(title) = <<>> THEN NULL
  ELSE parseText(toLowerCase(Val(title)))

(***************************************************************************)
(* findOutcomeForValue.  An outcome is returned by reference; the model    *)
(* returns its position in the array (null when nothing matched).          *)
(***************************************************************************)
\* lines 920-925
isExactMatch(parsed, value) ==
  /\ IsNumber(parsed.lower)
  /\ IsNumber(parsed.upper)
  /\ Val(parsed.lower) = value
  /\ Val(parsed.upper) = value

\* lines 930-935
isContainingRange(parsed, value) ==
  /\ IsNumber(parsed.lower)
  /\ IsNumber(parsed.upper)
  /\ value >= Val(parsed.lower)
  /\ value <= Val(parsed.upper)

isNarrower_OrEqual(width, bestRangeWidth) ==
  bestRangeWidth = NULL \/ width <= Val(bestRangeWidth)

\* line 937
isNarrower(width, bestRangeWidth) ==
  bestRangeWidth = NULL \/ width < Val(bestRangeWidth)

isSatisfiedBoundary_UpperUnchecked(parsed, value) ==
  \/ IsNumber(parsed.lower) /\ parsed.upper = NULL /\ value >= Val(parsed.lower)
  \/ IsNumber(parsed.upper) /\ parsed.lower = NULL

\* lines 945-946
isSatisfiedBoundary(parsed, value) ==
  \/ IsNumber(parsed.lower) /\ parsed.upper = NULL /\ value >= Val(parsed.lower)
  \/ IsNumber(parsed.upper) /\ parsed.lower = NULL /\ value <= Val(parsed.upper)

\* lines 911-914
NothingFound == [exact |-> NULL, bestRange |-> NULL, bestRangeWidth |-> NULL, boundary |-> NULL]

\* lines 920-949: the loop body for the outcome at position i, parsed
visitOutcome(acc, parsed, i, value) ==
  IF isExactMatch(parsed, value) THEN [acc EXCEPT !.exact = Some(i)]
  ELSE IF isContainingRange(parsed, value)
    THEN LET width == Val(parsed.upper) - Val(parsed.lower)
         IN  IF isNarrower(width, acc.bestRangeWidth)
               THEN [acc EXCEPT !.bestRange = Some(i), !.bestRangeWidth = Some(width)]
               ELSE acc
  ELSE IF isSatisfiedBoundary(parsed, value)
    THEN [acc EXCEPT !.boundary = IF acc.boundary = NULL THEN Some(i) ELSE acc.boundary]
  ELSE acc

\* lines 917-918: an outcome whose label does not parse is skipped
visitParsed(acc, parsed, i, value) ==
  IF parsed = NULL THEN acc ELSE visitOutcome(acc, Val(parsed), i, value)

RECURSIVE scanOutcomes_StopAtUnparseable(_, _, _, _)
scanOutcomes_StopAtUnparseable(outcomes, value, i, acc) ==
  IF i > Len(outcomes) \/ parseOutcomeTitle(outcomes[i].title) = NULL THEN acc
  ELSE scanOutcomes_StopAtUnparseable(
         outcomes, value, i + 1,
         visitParsed(acc, parseOutcomeTitle(outcomes[i].title), i, value))

\* lines 916-950: for (const outcome of outcomes), from position i on
RECURSIVE scanOutcomes(_, _, _, _)
scanOutcomes(outcomes, value, i, acc) ==
  IF i > Len(outcomes) THEN acc
  ELSE scanOutcomes(outcomes, value, i + 1,
                    visitParsed(acc, parseOutcomeTitle(outcomes[i].title), i, value))

bestCandidate_RangeFirst(acc) == Coalesce(acc.bestRange, Coalesce(acc.exact, acc.boundary))

bestCandidate_BoundaryBeforeRange(acc) ==
  Coalesce(acc.exact, Coalesce(acc.boundary, acc.bestRange))

\* line 952: exact ?? bestRange ?? boundary
bestCandidate(acc) == Coalesce(acc.exact, Coalesce(acc.bestRange, acc.boundary))

findOutcomeForValue(outcomes, value) ==
  bestCandidate(scanOutcomes(outcomes, value, 1, NothingFound))

matchesParsed_ClosedOnly(p, value) ==
  IF p = NULL THEN FALSE
  ELSE IF IsNumber(Val(p).lower) /\ IsNumber(Val(p).upper)
    THEN value >= Val(Val(p).lower) /\ value <= Val(Val(p).upper)
  ELSE FALSE

\* lines 898-904: the answer for the parsed label
matchesParsed(p, value) ==
  IF p = NULL THEN FALSE
  ELSE IF IsNumber(Val(p).lower) /\ IsNumber(Val(p).upper)
    THEN value >= Val(Val(p).lower) /\ value <= Val(Val(p).upper)
  ELSE IF IsNumber(Val(p).lower) THEN value >= Val(Val(p).lower)
  ELSE IF IsNumber(Val(p).upper) THEN value <= Val(Val(p).upper)
  ELSE FALSE

\* lines 893-905
outcomeMatchesValue(t, value) == matchesParsed(parseOutcomeTitle(t), value)

\* a || b on strings: null and the empty string are falsy
OrElse(a, b) == IF a # NULL /\ Val(a) # <<>> THEN a ELSE b

\* outcome.tokenId || outcome.title || "—"
outcomeKey(outcome) == Val(OrElse(outcome.tokenId, OrElse(outcome.title, Some(<<"emdash">>))))

\* Math.round of a number given in tenths: the nearest integer, halves upwards
MathRound(tenths) == (tenths + 5) \div 10

bucketNowOf_RawFirst(whole, high) ==
  IF IsNumber(high) THEN Some(MathRound(Val(high))) ELSE whole

\* bucketNow, from dashboard.weather.dayHighCelsiusWhole and .dayHigh (tenths)
bucketNowOf(whole, high) ==
  IF IsNumber(whole) THEN whole
  ELSE IF ~IsNumber(high) THEN NULL
  ELSE Some(MathRound(Val(high)))

(***************************************************************************)
(* The Resampler and the Coverage Reporter behind /api/trends.  They run   *)
(* in the backend; the frontend holds their caller (fetchTrendSeries) and  *)
(* the declarations of what they return (TrendPoint, TrendCoverage).  They *)
(* are written here after the design: a single pass over the sorted        *)
(* snapshots with a pointer that only moves forward.  Times are integers   *)
(* (minutes); the tolerance of the closest mode is half the interval, and  *)
(* of two snapshots at the same distance the earlier one is selected.      *)
(***************************************************************************)
Abs(x) == IF x < 0 THEN 0 - x ELSE x

MinutesPerDay == 1440
FillModes == {"closest", "carry"}

Snapshot(t, ask) == [captured_at |-> t, yes_best_ask |-> ask]

snapshotsInRange_WholeStore(store, start, end) == store

\* the store's query: the snapshots of the market within [start, end)
snapshotsInRange(store, start, end) ==
  LET InRange(snap) == start <= snap.captured_at /\ snap.captured_at < end
  IN  SelectSeq(store, InRange)

anchorsFrom_ThroughEnd(a, end, interval) ==
  LET RECURSIVE go(_)
      go(x) == IF x > end THEN <<>> ELSE <<x>> \o go(x + interval)
  IN  go(a)

\* the anchors start, start + interval, ... below end, from anchor a on
RECURSIVE anchorsFrom(_, _, _)
anchorsFrom(a, end, interval) ==
  IF a >= end THEN <<>> ELSE <<a>> \o anchorsFrom(a + interval, end, interval)

advanceCarry_LooksAhead(snaps, p, anchor) ==
  LET RECURSIVE go(_)
      go(q) == IF q < Len(snaps) /\ snaps[q + 1].captured_at <= anchor + 1
               THEN go(q + 1) ELSE q
  IN  go(p)

\* carry: move the pointer to the last snapshot captured at or before anchor
RECURSIVE advanceCarry(_, _, _)
advanceCarry(snaps, p, anchor) ==
  IF p < Len(snaps) /\ snaps[p + 1].captured_at <= anchor
  THEN advanceCarry(snaps, p + 1, anchor)
  ELSE p

advanceClosest_UpToAnchor(snaps, p, anchor) ==
  IF p >= 1 THEN Max(1, advanceCarry(snaps, p, anchor)) ELSE p

\* closest: move the pointer while the next snapshot is nearer to anchor
RECURSIVE advanceClosest(_, _, _)
advanceClosest(snaps, p, anchor) ==
  IF p >= 1 /\ p < Len(snaps)
     /\ Abs(snaps[p + 1].captured_at - anchor) < Abs(snaps[p].captured_at - anchor)
  THEN advanceClosest(snaps, p + 1, anchor)
  ELSE p

advance(snaps, p, anchor, mode) ==
  IF mode = "carry" THEN advanceCarry(snaps, p, anchor)
  ELSE advanceClosest(snaps, p, anchor)

withinTolerance_WholeInterval(t, anchor, interval) == Abs(t - anchor) <= interval

\* closest: a snapshot counts when it is at most half the interval away
withinTolerance(t, anchor, interval) == 2 * Abs(t - anchor) <= interval

selects_AnySnapshot(snaps, p, anchor, interval, mode) == p >= 1

\* the snapshot under the pointer satisfies the anchor
selects(snaps, p, anchor, interval, mode) ==
  /\ p >= 1
  /\ mode = "closest" => withinTolerance(snaps[p].captured_at, anchor, interval)

missingPoint(anchor) ==
  [anchor |-> anchor, captured_at |-> NULL, yes_best_ask |-> NULL]

filledPoint(anchor, snap) ==
  [anchor |-> anchor, captured_at |-> Some(snap.captured_at),
   yes_best_ask |-> Some(snap.yes_best_ask)]

pointAt_FromNewest(snaps, p, anchor, interval, mode) ==
  IF selects(snaps, p, anchor, interval, mode)
  THEN filledPoint(anchor, snaps[Len(snaps) - p + 1])
  ELSE missingPoint(anchor)

pointAt(snaps, p, anchor, interval, mode) ==
  IF selects(snaps, p, anchor, interval, mode) THEN filledPoint(anchor, snaps[p])
  ELSE missingPoint(anchor)

firstPointer(snaps, mode) == IF mode = "closest" /\ Len(snaps) > 0 THEN 1 ELSE 0

\* one ResampledPoint per anchor, from anchor i on, the pointer being at p
RECURSIVE fill(_, _, _, _, _, _)
fill(snaps, anchors, i, p, interval, mode) ==
  IF i > Len(anchors) THEN <<>>
  ELSE <<pointAt(snaps, advance(snaps, p, anchors[i], mode), anchors[i], interval, mode)>>
         \o fill(snaps, anchors, i + 1, advance(snaps, p, anchors[i], mode), interval, mode)

RECURSIVE countMissing(_, _)
countMissing(series, i) ==
  IF i > Len(series) THEN 0
  ELSE (IF series[i].yes_best_ask = NULL THEN 1 ELSE 0) + countMissing(series, i + 1)

coverage_MissingFromCounts(snaps, series) ==
  [snapshots |-> Len(snaps),
   first_snapshot |-> IF Len(snaps) = 0 THEN NULL ELSE Some(snaps[1].captured_at),
   last_snapshot |-> IF Len(snaps) = 0 THEN NULL ELSE Some(snaps[Len(snaps)].captured_at),
   resampled_points |-> Len(series),
   missing_points |-> Max(0, Len(series) - Len(snaps))]

\* Coverage Reporter: from the snapshots of the window and the resampled series
coverage(snaps, series) ==
  [snapshots |-> Len(snaps),
   first_snapshot |-> IF Len(snaps) = 0 THEN NULL ELSE Some(snaps[1].captured_at),
   last_snapshot |-> IF Len(snaps) = 0 THEN NULL ELSE Some(snaps[Len(snaps)].captured_at),
   resampled_points |-> Len(series),
   missing_points |-> countMissing(series, 1)]

invalidWindow ==
  [ok |-> FALSE, error |-> "invalid window", series |-> <<>>,
   coverage |-> coverage(<<>>, <<>>)]

resampled(snaps, series) ==
  [ok |-> TRUE, error |-> "", series |-> series, coverage |-> coverage(snaps, series)]

resample_EmptyOnInvalidWindow(snaps, start, end, interval, mode) ==
  resampled(snaps, fill(snaps, anchorsFrom(start, end, interval), 1,
                        firstPointer(snaps, mode), interval, mode))

\* resample(snapshots, window, intervalMinutes, mode) -> (series, coverage)
resample(snaps, start, end, interval, mode) ==
  IF end <= start THEN invalidWindow
  ELSE resampled(snaps, fill(snaps, anchorsFrom(start, end, interval), 1,
                             firstPointer(snaps, mode), interval, mode))

\* a trend query: the snapshots of the window, resampled
trendQuery(store, start, end, interval, mode) ==
  resample(snapshotsInRange(store, start, end), start, end, interval, mode)

(***************************************************************************)
(* Labels given to the parser.  A label is composed from its parts (the    *)
(* integers as decimal text, a unit after each, a separator, a qualifier); *)
(* the parser sees only the composed text.                                 *)
(***************************************************************************)
MaxAbs == 1
MaxOutcomes == 3
MaxTemp == 1

DigitChar(d) ==
  CASE d = 0 -> "0" [] d = 1 -> "1" [] d = 2 -> "2" [] d = 3 -> "3"
    [] d = 4 -> "4" [] d = 5 -> "5" [] d = 6 -> "6" [] d = 7 -> "7"
    [] d = 8 -> "8" [] d = 9 -> "9"

RECURSIVE NatText(_)
NatText(n) == IF n < 10 THEN <<DigitChar(n)>> ELSE NatText(n \div 10) \o <<DigitChar(n % 10)>>
IntText(n) == IF n < 0 THEN <<"-">> \o NatText(0 - n) ELSE NatText(n)

LabelNums == (0 - MaxAbs)..MaxAbs \cup {12}
NoUnit == <<>>
CelsiusUnits == {<<"deg", "C">>, <<"c">>, <<" ", "deg", " ", "C">>}
LabelUnits == CelsiusUnits \cup {NoUnit, <<"deg">>}
DashSeparators == {<<"-">>, <<"endash">>, <<"emdash">>, <<" ", "-", " ">>}
ToSeparators == {<<"t", "o">>, <<" ", "t", "o", " ">>}
LabelSeparators == DashSeparators \cup ToSeparators
NoQualifier == <<>>
BelowQualifiers == {OrBelow, OrLower}
AboveQualifiers == {OrHigher, OrAbove}
BothQualifiers == {OrBelow \o <<" ">> \o OrAbove, OrHigher \o <<" ">> \o OrLower}
LabelQualifiers == {NoQualifier} \cup BelowQualifiers \cup AboveQualifiers
NoIntegerTexts == {<<"o", "r", " ", "b", "e", "l", "o", "w">>, <<"deg", "C">>, <<"-">>, <<" ">>}

WithQualifier(text, qual) == IF qual = NoQualifier THEN text ELSE text \o <<" ">> \o qual

LabelShapes ==
  [form : {"single"}, a : LabelNums, b : {0}, unit1 : LabelUnits, unit2 : {NoUnit},
   sep : {<<>>}, qual : LabelQualifiers \cup BothQualifiers]
  \cup [form : {"sep"}, a : LabelNums, b : LabelNums, unit1 : LabelUnits,
        unit2 : LabelUnits, sep : LabelSeparators, qual : LabelQualifiers]
  \cup [form : {"between"}, a : LabelNums, b : LabelNums, unit1 : LabelUnits,
        unit2 : LabelUnits, sep : {<<>>}, qual : LabelQualifiers]
  \cup [form : {"text"}, a : {0}, b : {0}, unit1 : {NoUnit}, unit2 : {NoUnit},
        sep : NoIntegerTexts, qual : {NoQualifier}]
  \cup [form : {"empty", "null"}, a : {0}, b : {0}, unit1 : {NoUnit}, unit2 : {NoUnit},
        sep : {<<>>}, qual : {NoQualifier}]

LabelTitle(shape) ==
  CASE shape.form = "single" ->
         Some(WithQualifier(IntText(shape.a) \o shape.unit1, shape.qual))
    [] shape.form = "sep" ->
         Some(WithQualifier(IntText(shape.a) \o shape.unit1 \o shape.sep
                          \o IntText(shape.b) \o shape.unit2, shape.qual))
    [] shape.form = "between" ->
         Some(WithQualifier(<<"B", "e", "t", "w", "e", "e", "n", " ">> \o IntText(shape.a)
                          \o shape.unit1 \o <<" ", "a", "n", "d", " ">>
                          \o IntText(shape.b) \o shape.unit2, shape.qual))
    [] shape.form = "text" -> Some(shape.sep)
    [] shape.form = "empty" -> Some(<<>>)
    [] shape.form = "null" -> NULL

(***************************************************************************)
(* Dashboard payloads given to the matcher.                                *)
(***************************************************************************)
Txt0C == <<"0", "deg", "C">>
Txt0c == <<"0", " ", "c">>
TxtM1to1 == <<"-", "1", "deg", "C", " ", "t", "o", " ", "1", "deg", "C">>
TxtBetween0and2 == <<"B", "e", "t", "w", "e", "e", "n", " ", "0", " ", "a", "n", "d", " ", "2">>
Txt0dash1 == <<"0", "deg", "C", "-", "1", "deg", "C">>
Txt0orBelow == <<"0", "deg", "C", " ">> \o OrBelow
TxtM1orHigher == <<"-", "1", "deg", "C", " ">> \o OrHigher

Outcome(t, k) == [title |-> t, tokenId |-> k]

ParseableOutcomes ==
  { Outcome(Some(Txt0C), Some(<<"A">>)),
    Outcome(Some(Txt0c), Some(<<"B">>)),
    Outcome(Some(TxtM1to1), Some(<<"C">>)),
    Outcome(Some(TxtBetween0and2), Some(<<"D">>)),
    Outcome(Some(Txt0dash1), Some(<<"E">>)),
    Outcome(Some(Txt0orBelow), Some(<<"F">>)),
    Outcome(Some(TxtM1orHigher), NULL) }

\* outcomes whose label holds no integer
UnparseableOutcomes ==
  { Outcome(Some(OrBelow), Some(<<"H">>)),
    Outcome(Some(<<>>), Some(<<"J">>)),
    Outcome(NULL, NULL) }

\* the outcomes of the first payload
OutcomeCatalog == ParseableOutcomes \cup {Outcome(Some(OrBelow), Some(<<"H">>))}

\* the sequences of at most n distinct elements of S
RECURSIVE DistinctSeqsUpTo(_, _)
DistinctSeqsUpTo(S, n) ==
  IF n = 0 THEN {<<>>}
  ELSE LET shorter == DistinctSeqsUpTo(S, n - 1)
           longest == {r \in shorter : Len(r) = n - 1}
           Fresh(q) == {y \in S : \A k \in 1..Len(q) : q[k] # y}
       IN  shorter \cup UNION {{Append(q, x) : x \in Fresh(q)} : q \in longest}

Temps == (0 - MaxTemp)..MaxTemp
DayHighTenths == {5}

WeatherInputs ==
  {[whole |-> Some(v), high |-> NULL] : v \in Temps}
    \cup {[whole |-> NULL, high |-> h] : h \in {NULL} \cup {Some(t) : t \in DayHighTenths}}
    \cup {[whole |-> Some(0), high |-> Some(15)]}

InsertAt(q, p, x) == SubSeq(q, 1, p - 1) \o <<x>> \o SubSeq(q, p, Len(q))
RemoveAt(q, p) == SubSeq(q, 1, p - 1) \o SubSeq(q, p + 1, Len(q))

(***************************************************************************)
(* State.                                                                  *)
(*   labelShape, title : the label handed to parseOutcomeTitle             *)
(*   parsed, parseDone : its result, once the call has returned            *)
(*   marketOutcomes    : dashboard.market.outcomes                         *)
(*   dayHighCelsiusWhole, dayHigh : dashboard.weather (dayHigh in tenths)  *)
(*   found             : the outcome highestOutcomeKey got from            *)
(*                       findOutcomeForValue (its position, or null)       *)
(*   highestKey        : the value of the computed highestOutcomeKey       *)
(*   rendered          : the computed value is up to date                  *)
(*   snapshotStore     : the stored snapshots of one market, ascending      *)
(*   windowStart, windowEnd, intervalMinutes, fillMode : a trend query     *)
(*   response          : what the query returned, once it has              *)
(*   trendDates ... trendError : the refs of the trend explorer            *)
(*   calls             : the fetches in flight, each with the position of  *)
(*                       the async function awaiting it                    *)
(*   changes           : the number of filter changes made in the page     *)
(*   kstDate           : dashboard.meta.kstDate, a day number              *)
(*   lastNotifiedDate, lastNotifiedHigh, notifyStateLoaded : the module    *)
(*                       variables of the day-high notification; a high is *)
(*                       a number of tenths of a degree                    *)
(*   notifyStored, soundStored : the two items kept in localStorage        *)
(*   highNotice, noticeTimer : the notice in the footer and the id of the  *)
(*                       timeout set to clear it (0 for undefined)         *)
(*   timeouts          : the timeouts pending in the window, each with its *)
(*                       id and the time left before it may fire           *)
(*   soundEnabled, audioContext : the sound toggle and the state of the    *)
(*                       AudioContext ("none" while it is null)            *)
(*   soundCalls        : the toggleSound calls suspended at an await       *)
(*   showYesAsk ... showNoBid : the series checkboxes of the trend chart   *)
(*   mounted           : the component has not been unmounted              *)
(*   emitted           : what the last handler emitted: "notice" for       *)
(*                       showHighNotice, "browser" for notifyBrowser,      *)
(*                       "beep" for playBeep                               *)
(* History, kept for the properties only:                                  *)
(*   restored          : the notification item the first call of          *)
(*                       loadNotifyState read from localStorage            *)
(*   runHigh           : the highest signal among the payloads received    *)
(*                       since kstDate last changed                        *)
(*   noticeAge         : the time since highNotice was last set, up to the *)
(*                       delay of the notice                               *)
(***************************************************************************)
VARIABLES labelShape, title, parsed, parseDone,
          marketOutcomes, dayHighCelsiusWhole, dayHigh, found, highestKey, rendered,
          snapshotStore, windowStart, windowEnd, intervalMinutes, fillMode, response,
          trendDates, trendDate, trendMarkets, trendDefaultMarketId, trendMarketId,
          trendStart, trendEnd, trendInterval, trendMode, trendSeries, trendCoverage,
          trendTempSource, trendLoading, trendError, calls, changes,
          kstDate, lastNotifiedDate, lastNotifiedHigh, notifyStateLoaded,
          notifyStored, soundStored, highNotice, noticeTimer, timeouts,
          soundEnabled, audioContext, soundCalls,
          showYesAsk, showYesBid, showNoAsk, showNoBid, mounted, emitted,
          restored, runHigh, noticeAge

parseVars == <<labelShape, title, parsed, parseDone>>
matchVars == <<marketOutcomes, dayHighCelsiusWhole, dayHigh, found, highestKey, rendered>>
resampleVars == <<snapshotStore, windowStart, windowEnd, intervalMinutes, fillMode, response>>
filterVars == <<trendDate, trendMarketId, trendStart, trendEnd, trendInterval, trendMode>>
marketVars == <<trendDates, trendMarkets, trendDefaultMarketId>>
resultVars == <<trendSeries, trendCoverage, trendTempSource>>
trendVars == <<filterVars, marketVars, resultVars, trendLoading, trendError, calls, changes>>
notifyVars == <<kstDate, lastNotifiedDate, lastNotifiedHigh, notifyStateLoaded,
                notifyStored, restored, runHigh>>
noticeVars == <<highNotice, noticeTimer, timeouts, noticeAge>>
soundVars == <<soundEnabled, audioContext, soundStored, soundCalls>>
seriesVars == <<showYesAsk, showYesBid, showNoAsk, showNoBid>>
pageVars == <<notifyVars, noticeVars, soundVars, seriesVars, mounted, emitted>>
vars == <<labelShape, title, parsed, parseDone,
          marketOutcomes, dayHighCelsiusWhole, dayHigh, found, highestKey, rendered,
          snapshotStore, windowStart, windowEnd, intervalMinutes, fillMode, response,
          trendDates, trendDate, trendMarkets, trendDefaultMarketId, trendMarketId,
          trendStart, trendEnd, trendInterval, trendMode, trendSeries, trendCoverage,
          trendTempSource, trendLoading, trendError, calls, changes,
          kstDate, lastNotifiedDate, lastNotifiedHigh, notifyStateLoaded,
          notifyStored, soundStored, highNotice, noticeTimer, timeouts,
          soundEnabled, audioContext, soundCalls,
          showYesAsk, showYesBid, showNoAsk, showNoBid, mounted, emitted,
          restored, runHigh, noticeAge>>

bucketNow == bucketNowOf(dayHighCelsiusWhole, dayHigh)

\* highestOutcomeKey, lines 1795-1797: the outcome found for the payload
foundFor(outcomes, target) ==
  IF ~IsNumber(target) THEN NULL ELSE findOutcomeForValue(outcomes, Val(target))

\* highestOutcomeKey, line 1798: found ? outcomeKey(found) : null
keyOfFound(outcomes, f) ==
  IF f # NULL THEN Some(outcomeKey(outcomes[Val(f)])) ELSE NULL

NoDashboard ==
  /\ marketOutcomes = <<>>
  /\ dayHighCelsiusWhole = NULL
  /\ dayHigh = NULL
  /\ found = NULL
  /\ highestKey = NULL
  /\ rendered = FALSE

NoQuery ==
  /\ snapshotStore = <<>>
  /\ windowStart = 0
  /\ windowEnd = MinutesPerDay
  /\ intervalMinutes = 15
  /\ fillMode = "closest"
  /\ response = NULL

\* the refs of the trend explorer as declared, lines 712-729
TrendDefaults ==
  /\ trendDates = <<>>
  /\ trendDate = NULL
  /\ trendMarkets = <<>>
  /\ trendDefaultMarketId = NULL
  /\ trendMarketId = ""
  /\ trendStart = "00:00"
  /\ trendEnd = "24:00"
  /\ trendInterval = 15
  /\ trendMode = "closest"
  /\ trendSeries = <<>>
  /\ trendCoverage = NULL
  /\ trendTempSource = NULL
  /\ trendLoading = FALSE
  /\ trendError = NULL

NoTrends ==
  /\ TrendDefaults
  /\ calls = <<>>
  /\ changes = 0

\* the variables and refs of the page as declared, lines 706-708 and 721-738
NoNotice ==
  /\ highNotice = NULL
  /\ noticeTimer = 0
  /\ timeouts = {}
  /\ noticeAge = 0

NoSound ==
  /\ soundEnabled = FALSE
  /\ audioContext = "none"
  /\ soundStored = NULL
  /\ soundCalls = <<>>

SeriesDefaults ==
  /\ showYesAsk = TRUE
  /\ showYesBid = FALSE
  /\ showNoAsk = FALSE
  /\ showNoBid = FALSE

NothingNotified ==
  /\ kstDate = NULL
  /\ lastNotifiedDate = NULL
  /\ lastNotifiedHigh = NULL
  /\ notifyStateLoaded = FALSE
  /\ notifyStored = NULL
  /\ restored = NULL
  /\ runHigh = NULL

NoPage ==
  /\ NothingNotified
  /\ NoNotice
  /\ NoSound
  /\ SeriesDefaults
  /\ mounted = TRUE
  /\ emitted = {}

NoLabel ==
  /\ labelShape = [form |-> "null", a |-> 0, b |-> 0, unit1 |-> NoUnit,
                   unit2 |-> NoUnit, sep |-> <<>>, qual |-> NoQualifier]
  /\ title = NULL
  /\ parsed = NULL
  /\ parseDone = FALSE

ParseInit ==
  /\ labelShape \in LabelShapes
  /\ title = LabelTitle(labelShape)
  /\ parsed = NULL
  /\ parseDone = FALSE
  /\ NoDashboard
  /\ NoQuery
  /\ NoTrends
  /\ NoPage

\* a call parseOutcomeTitle(title)
ParseTitle ==
  /\ ~parseDone
  /\ parsed' = parseOutcomeTitle(title)
  /\ parseDone' = TRUE
  /\ UNCHANGED <<labelShape, title>>
  /\ UNCHANGED matchVars
  /\ UNCHANGED resampleVars
  /\ UNCHANGED trendVars
  /\ UNCHANGED pageVars

ParseNext == ParseTitle
SpecParse == ParseInit /\ [][ParseNext]_vars

MatchInit ==
  /\ marketOutcomes \in DistinctSeqsUpTo(OutcomeCatalog, MaxOutcomes)
  /\ \E w \in WeatherInputs :
       /\ dayHighCelsiusWhole = w.whole
       /\ dayHigh = w.high
  /\ found = NULL
  /\ highestKey = NULL
  /\ rendered = FALSE
  /\ NoLabel
  /\ NoQuery
  /\ NoTrends
  /\ NoPage

\* the template reads highestOutcomeKey: the computed value is evaluated
Render ==
  /\ ~rendered
  /\ found' = foundFor(marketOutcomes, bucketNow)
  /\ highestKey' = keyOfFound(marketOutcomes, found')
  /\ rendered' = TRUE
  /\ UNCHANGED <<marketOutcomes, dayHighCelsiusWhole, dayHigh>>
  /\ UNCHANGED parseVars
  /\ UNCHANGED resampleVars
  /\ UNCHANGED trendVars
  /\ UNCHANGED pageVars

\* load: the next payload, here the same market with one more outcome whose
\* label cannot be parsed; the computed value is evaluated again
LoadWithOutcomeInserted ==
  /\ rendered
  /\ Len(marketOutcomes) < MaxOutcomes
  /\ \E p \in 1..(Len(marketOutcomes) + 1), u \in UnparseableOutcomes :
       /\ \A i \in 1..Len(marketOutcomes) : marketOutcomes[i] # u
       /\ marketOutcomes' = InsertAt(marketOutcomes, p, u)
  /\ found' = foundFor(marketOutcomes', bucketNow)
  /\ highestKey' = keyOfFound(marketOutcomes', found')
  /\ UNCHANGED <<dayHighCelsiusWhole, dayHigh, rendered>>
  /\ UNCHANGED parseVars
  /\ UNCHANGED resampleVars
  /\ UNCHANGED trendVars
  /\ UNCHANGED pageVars

\* load: the next payload, here the same market without one of the outcomes
\* whose label cannot be parsed
LoadWithOutcomeRemoved ==
  /\ rendered
  /\ \E p \in 1..Len(marketOutcomes) :
       /\ marketOutcomes[p] \in UnparseableOutcomes
       /\ marketOutcomes' = RemoveAt(marketOutcomes, p)
  /\ found' = foundFor(marketOutcomes', bucketNow)
  /\ highestKey' = keyOfFound(marketOutcomes', found')
  /\ UNCHANGED <<dayHighCelsiusWhole, dayHigh, rendered>>
  /\ UNCHANGED parseVars
  /\ UNCHANGED resampleVars
  /\ UNCHANGED trendVars
  /\ UNCHANGED pageVars

MatchNext == Render \/ LoadWithOutcomeInserted \/ LoadWithOutcomeRemoved
SpecMatch == MatchInit /\ [][MatchNext]_vars

(***************************************************************************)
(* The notice in the footer and the day-high notification.  A temperature  *)
(* is a number of tenths of a degree, a time a number of milliseconds, a   *)
(* KST date a day number.  The item in localStorage is the object that     *)
(* persistNotifyState serialises; reading or writing localStorage may      *)
(* throw, and the code ignores that.                                       *)
(***************************************************************************)
TicksPerNotice == 3

\* showHighNotice, line 1574: the delay of the timeout
NoticeDelay == 12000

\* window.setTimeout returns an id that no pending timeout has; an id the
\* page no longer holds is as good as a new one
freshTimer ==
  CHOOSE i \in 1..(Cardinality(timeouts) + 2) :
    i # noticeTimer /\ \A t \in timeouts : t.id # i

showHighNotice_KeepsOlderTimeout(message) ==
  /\ highNotice' = Some(message)
  /\ noticeTimer' = freshTimer
  /\ timeouts' = timeouts \cup {[id |-> freshTimer, left |-> NoticeDelay]}
  /\ noticeAge' = 0

\* showHighNotice, lines 1569-1575
showHighNotice(message) ==
  /\ highNotice' = Some(message)
  /\ noticeTimer' = freshTimer
  /\ timeouts' = {t \in timeouts : t.id # noticeTimer}
                   \cup {[id |-> freshTimer, left |-> NoticeDelay]}
  /\ noticeAge' = 0

\* maybeNotifyNewHigh, lines 1723-1727: the signal of a payload
signalOf(whole, high) ==
  IF IsNumber(whole) THEN Some(10 * Val(whole))
  ELSE IF IsNumber(high) THEN high
  ELSE NULL

\* a number of tenths in millionths
Millionths(tenths) == 100000 * tenths

exceeds_OrEquals(signal, last) == Millionths(signal) >= Millionths(last)

\* maybeNotifyNewHigh, line 1743: signal > lastNotifiedHigh + 1e-6
exceeds(signal, last) == Millionths(signal) > Millionths(last) + 1

\* loadNotifyState, lines 1666-1682: the two variables after the call
loadNotifyState(readable) ==
  IF notifyStateLoaded \/ ~readable \/ notifyStored = NULL
  THEN [date |-> lastNotifiedDate, high |-> lastNotifiedHigh]
  ELSE [date |-> Val(notifyStored).date, high |-> Val(notifyStored).value]

\* persistNotifyState, lines 1684-1694, after the variables were assigned
persistNotifyState(writable) ==
  notifyStored' =
    IF writable THEN Some([date |-> lastNotifiedDate', value |-> lastNotifiedHigh'])
    ELSE notifyStored

\* maybeNotifyNewHigh, lines 1744-1749: which message is shown
noticeFor(whole) == IF IsNumber(whole) THEN "New winning bucket" ELSE "New day high"

maybeNotifyNewHigh_EmitsOnDateChange(next, readable, writable) ==
  LET was == loadNotifyState(readable)
      signal == signalOf(next.whole, next.high)
  IN  /\ notifyStateLoaded' = TRUE
      /\ IF ~IsNumber(signal)
         THEN /\ lastNotifiedDate' = was.date
              /\ lastNotifiedHigh' = was.high
              /\ emitted' = {}
              /\ UNCHANGED <<notifyStored, noticeVars>>
         ELSE IF was.high = NULL \/ (was.date = Some(next.kstDate)
                                      /\ ~exceeds(Val(signal), Val(was.high)))
         THEN /\ lastNotifiedDate' = Some(next.kstDate)
              /\ lastNotifiedHigh' = IF was.date = Some(next.kstDate) /\ was.high # NULL
                                     THEN was.high ELSE signal
              /\ (IF was.date = Some(next.kstDate) /\ was.high # NULL
                   THEN UNCHANGED notifyStored ELSE persistNotifyState(writable))
              /\ emitted' = {}
              /\ UNCHANGED noticeVars
         ELSE /\ showHighNotice(noticeFor(next.whole))
              /\ emitted' = {"notice", "browser"}
                              \cup (IF soundEnabled THEN {"beep"} ELSE {})
              /\ lastNotifiedDate' = Some(next.kstDate)
              /\ lastNotifiedHigh' = signal
              /\ persistNotifyState(writable)

\* maybeNotifyNewHigh, lines 1721-1759
maybeNotifyNewHigh(next, readable, writable) ==
  LET was == loadNotifyState(readable)
      signal == signalOf(next.whole, next.high)
  IN  /\ notifyStateLoaded' = TRUE
      /\ IF ~IsNumber(signal)
         THEN /\ lastNotifiedDate' = was.date
              /\ lastNotifiedHigh' = was.high
              /\ emitted' = {}
              /\ UNCHANGED <<notifyStored, noticeVars>>
         ELSE IF was.date # Some(next.kstDate) \/ was.high = NULL
         THEN /\ lastNotifiedDate' = Some(next.kstDate)
              /\ lastNotifiedHigh' = signal
              /\ persistNotifyState(writable)
              /\ emitted' = {}
              /\ UNCHANGED noticeVars
         ELSE IF exceeds(Val(signal), Val(was.high))
         THEN /\ showHighNotice(noticeFor(next.whole))
              /\ emitted' = {"notice", "browser"}
                              \cup (IF soundEnabled THEN {"beep"} ELSE {})
              /\ lastNotifiedDate' = was.date
              /\ lastNotifiedHigh' = signal
              /\ persistNotifyState(writable)
         ELSE /\ lastNotifiedDate' = was.date
              /\ lastNotifiedHigh' = was.high
              /\ emitted' = {}
              /\ UNCHANGED <<notifyStored, noticeVars>>

\* the higher of a nullable number and a nullable number
Higher(a, b) ==
  IF a = NULL THEN b
  ELSE IF b = NULL THEN a
  ELSE IF Val(b) > Val(a) THEN b ELSE a

(***************************************************************************)
(* The day high behind the highlighted bucket (specification SpecDayHigh). *)
(* Every poll replaces the dashboard by the payload it fetched; the        *)
(* payloads differ in weather.dayHighCelsiusWhole and weather.dayHigh.     *)
(***************************************************************************)
MaxHigh == 4

DegreeOutcome(n) == Outcome(Some(IntText(n) \o <<"deg", "C">>), Some(IntText(n)))

\* the outcomes of the polled market: one open bucket and the top two degrees
DayHighMarket ==
  <<Outcome(Some(Txt0orBelow), Some(<<"F">>)),
    DegreeOutcome(MaxHigh - 1), DegreeOutcome(MaxHigh)>>

\* the degrees the polled day highs lie in: below zero and next to the top
HighDegrees == {0 - 1, MaxHigh - 1}
RecordedHighs == {NULL} \cup {Some(n) : n \in HighDegrees \cup {MaxHigh}}
TenthsAfterPoint == {0, 2, 5, 8}
ObservedHighs ==
  {NULL} \cup {Some(10 * n + f) : n \in HighDegrees, f \in TenthsAfterPoint}

DayHighInit ==
  /\ NoDashboard
  /\ NoLabel
  /\ NoQuery
  /\ NoTrends
  /\ NoPage

\* a payload of /api/dashboard: its date, its day high, its market
Payload(date, whole, high, outcomes) ==
  [kstDate |-> date, whole |-> whole, high |-> high, outcomes |-> outcomes]

\* load, lines 1369-1380, with the payload it fetched: maybeNotifyNewHigh,
\* then dashboard.value = data; the computed values follow
load(next, readable, writable) ==
  /\ mounted
  /\ maybeNotifyNewHigh(next, readable, writable)
  /\ runHigh' = IF kstDate = Some(next.kstDate)
                THEN Higher(runHigh, signalOf(next.whole, next.high))
                ELSE signalOf(next.whole, next.high)
  /\ kstDate' = Some(next.kstDate)
  /\ marketOutcomes' = next.outcomes
  /\ dayHighCelsiusWhole' = next.whole
  /\ dayHigh' = next.high
  /\ found' = foundFor(marketOutcomes', bucketNow')
  /\ highestKey' = keyOfFound(marketOutcomes', found')
  /\ rendered' = TRUE
  /\ restored' = IF notifyStateLoaded THEN restored
                 ELSE IF readable THEN notifyStored ELSE NULL
  /\ UNCHANGED <<soundVars, seriesVars, mounted>>
  /\ UNCHANGED parseVars
  /\ UNCHANGED resampleVars
  /\ UNCHANGED trendVars

\* the polls of one day, with localStorage in order
LoadDashboard ==
  \E whole \in RecordedHighs, high \in ObservedHighs :
    load(Payload(1, whole, high, DayHighMarket), TRUE, TRUE)

DayHighNext == LoadDashboard
SpecDayHigh == DayHighInit /\ [][DayHighNext]_vars

\* the floor of a number given in tenths
Floor(tenths) == tenths \div 10

\* C11: without an authoritative whole-degree value, the integer day high
\* used to pick the bucket is the floor of the maximum observed temperature
\* (3.8 gives 3, -0.5 gives -1), not the rounded value.
C11_RawDayHighIsFloored ==
  (rendered /\ ~IsNumber(dayHighCelsiusWhole) /\ IsNumber(dayHigh))
    => bucketNow = Some(Floor(Val(dayHigh)))

\* C12: a recorded whole-degree day high is the value used for the bucket
\* selection whatever the observed maximum is (record 4 with maximum 3.2
\* gives 4); the value derived from the observations is used only when the
\* latest payload carries no record.
C12_RecordedDayHighTakesPrecedence ==
  rendered =>
    /\ IsNumber(dayHighCelsiusWhole) =>
         /\ bucketNow = dayHighCelsiusWhole
         /\ found = foundFor(marketOutcomes, dayHighCelsiusWhole)
    /\ (IsNumber(dayHigh) /\ bucketNow = Some(MathRound(Val(dayHigh)))
          /\ bucketNow # dayHighCelsiusWhole)
         => ~IsNumber(dayHighCelsiusWhole)

C12_Witness ==
  /\ rendered
  /\ dayHighCelsiusWhole = Some(MaxHigh)
  /\ dayHigh = Some(10 * (MaxHigh - 1) + 2)
  /\ highestKey = Some(IntText(MaxHigh))

(***************************************************************************)
(* Properties of parseOutcomeTitle (specification SpecParse).  The         *)
(* expected result is computed from the parts of the label.                *)
(***************************************************************************)
ExactOutcome(n) == Some(ParsedOutcome(Some(n), Some(n), Whole(n)))
RangeOutcome(a, b) == Some(ParsedOutcome(Some(Min(a, b)), Some(Max(a, b)), Half(a + b)))
AtOrBelow(n) == Some(ParsedOutcome(NULL, Some(n), Whole(n)))
AtOrAbove(n) == Some(ParsedOutcome(Some(n), NULL, Whole(n)))

IsRangeLabel == labelShape.form \in {"sep", "between"}
IsSingleLabel == labelShape.form = "single"
PlainUnits == CelsiusUnits \cup {NoUnit}

\* C7: every label made of two integers a, b joined by a dash, en dash, em
\* dash or "to", or written "between a and b", parses to lower = min(a, b),
\* upper = max(a, b), representative = (lower + upper) / 2.
C7_RangeLabelParsesToRange ==
  (/\ parseDone
   /\ IsRangeLabel
   /\ labelShape.qual = NoQualifier
   /\ labelShape.unit1 \in PlainUnits
   /\ labelShape.unit2 \in PlainUnits)
  => parsed = RangeOutcome(labelShape.a, labelShape.b)

\* C8 as stated: every label with a single integer n and no qualifier parses
\* to the exact bucket {n, n, n}, whatever follows the integer.
C8_Original_SingleIntegerIsExact ==
  (parseDone /\ IsSingleLabel /\ labelShape.qual = NoQualifier)
  => parsed = ExactOutcome(labelShape.a)

\* C8 (amended): every label with a single integer n that is followed by
\* optional whitespace, an optional degree sign, optional whitespace and the
\* letter c, and with no qualifier, parses to the exact bucket {n, n, n}.
C8_SingleCelsiusIntegerIsExact ==
  (/\ parseDone
   /\ IsSingleLabel
   /\ labelShape.qual = NoQualifier
   /\ labelShape.unit1 \in CelsiusUnits)
  => parsed = ExactOutcome(labelShape.a)

C8_Witness ==
  /\ parseDone
  /\ IsSingleLabel
  /\ labelShape.qual = NoQualifier
  /\ labelShape.unit1 = <<"deg", "C">>
  /\ labelShape.a < 0
  /\ parsed = ExactOutcome(labelShape.a)

\* C9 as stated: every label with a single integer n and the qualifier
\* "or below"/"or lower" parses to {null, n, n}, and with "or higher"/
\* "or above" to {n, null, n}, whatever follows the integer.
C9_Original_QualifierIsOpenEnded ==
  (parseDone /\ IsSingleLabel)
  => /\ labelShape.qual \in BelowQualifiers => parsed = AtOrBelow(labelShape.a)
     /\ labelShape.qual \in AboveQualifiers => parsed = AtOrAbove(labelShape.a)

\* C9 (amended): every label with a single integer n that is followed by
\* optional whitespace, an optional degree sign, optional whitespace and the
\* letter c, and with one qualifier, parses to {null, n, n} when the qualifier
\* is "or below"/"or lower" and to {n, null, n} when it is "or higher"/
\* "or above".
C9_CelsiusQualifierIsOpenEnded ==
  (parseDone /\ IsSingleLabel /\ labelShape.unit1 \in CelsiusUnits)
  => /\ labelShape.qual \in BelowQualifiers => parsed = AtOrBelow(labelShape.a)
     /\ labelShape.qual \in AboveQualifiers => parsed = AtOrAbove(labelShape.a)

C9_Witness ==
  /\ parseDone
  /\ IsSingleLabel
  /\ labelShape.unit1 \in CelsiusUnits
  /\ labelShape.qual = OrAbove
  /\ parsed = AtOrAbove(labelShape.a)

\* The label matches one of the two range patterns: both integers carry the
\* unit in the separator form; the unit is optional in the "between" form.
MatchesRangePattern ==
  \/ labelShape.form = "between"
  \/ /\ labelShape.form = "sep"
     /\ labelShape.unit1 \in CelsiusUnits
     /\ labelShape.unit2 \in CelsiusUnits

\* C10: the rules apply in order and the first that matches decides: a label
\* that matches the range pattern parses as the range even when it also
\* carries an open-ended qualifier, and a single-integer label that carries
\* both kinds of qualifier parses as "or below" (upper bound only).
C10_FirstMatchingRuleDecides ==
  parseDone =>
    /\ (MatchesRangePattern /\ labelShape.qual # NoQualifier)
         => parsed = RangeOutcome(labelShape.a, labelShape.b)
    /\ (/\ IsSingleLabel
        /\ labelShape.unit1 \in CelsiusUnits
        /\ labelShape.qual \in BothQualifiers)
         => parsed = AtOrBelow(labelShape.a)

C10_Witness ==
  /\ parseDone
  /\ IsSingleLabel
  /\ labelShape.unit1 \in CelsiusUnits
  /\ labelShape.qual = OrHigher \o <<" ">> \o OrLower
  /\ parsed = AtOrBelow(labelShape.a)

(***************************************************************************)
(* Properties of findOutcomeForValue and highestOutcomeKey (specification  *)
(* SpecMatch), stated on the parsed bounds of the outcomes of the payload. *)
(***************************************************************************)
Positions == 1..Len(marketOutcomes)
Matched == rendered /\ IsNumber(bucketNow)
Target == Val(bucketNow)

\* the parsed bounds of the outcomes of the payload, in input order
RECURSIVE ParsedFrom(_, _)
ParsedFrom(outcomes, i) ==
  IF i > Len(outcomes) THEN <<>>
  ELSE <<parseOutcomeTitle(outcomes[i].title)>> \o ParsedFrom(outcomes, i + 1)

Buckets == ParsedFrom(marketOutcomes, 1)

IsExactBucket(B, i, v) ==
  /\ B[i] # NULL
  /\ Val(B[i]).lower = Some(v)
  /\ Val(B[i]).upper = Some(v)

IsRangeBucket(B, i, v) ==
  /\ B[i] # NULL
  /\ Val(B[i]).lower # NULL
  /\ Val(B[i]).upper # NULL
  /\ Val(Val(B[i]).lower) <= v
  /\ v <= Val(Val(B[i]).upper)
  /\ ~IsExactBucket(B, i, v)

IsOpenBucket(B, i, v) ==
  /\ B[i] # NULL
  /\ \/ /\ Val(B[i]).upper = NULL
        /\ Val(B[i]).lower # NULL
        /\ v >= Val(Val(B[i]).lower)
     \/ /\ Val(B[i]).lower = NULL
        /\ Val(B[i]).upper # NULL
        /\ v <= Val(Val(B[i]).upper)

WidthOf(B, i) == Val(Val(B[i]).upper) - Val(Val(B[i]).lower)
HasExact(B, v) == \E i \in DOMAIN B : IsExactBucket(B, i, v)
HasRange(B, v) == \E i \in DOMAIN B : IsRangeBucket(B, i, v)
HasOpen(B, v) == \E i \in DOMAIN B : IsOpenBucket(B, i, v)
First(S) == CHOOSE i \in S : \A j \in S : i <= j

\* C1: whenever some outcome parses to the exact bucket of the value, the
\* outcome returned is an exact bucket of the value, wherever it stands and
\* whatever ranges or open-ended buckets also hold the value.
C1_ExactBucketWins ==
  Matched =>
    LET B == Buckets
    IN  HasExact(B, Target) => (found # NULL /\ IsExactBucket(B, Val(found), Target))

C1_Witness ==
  /\ Matched
  /\ found # NULL
  /\ LET B == Buckets
     IN  /\ IsExactBucket(B, Val(found), Target)
         /\ \E i \in Positions : i < Val(found) /\ IsRangeBucket(B, i, Target)
         /\ \E i \in Positions : i < Val(found) /\ IsOpenBucket(B, i, Target)

\* C2: when two or more outcomes parse to the exact bucket of the value, the
\* outcome returned is the first of them in input order.
C2_FirstDuplicateExactWins ==
  Matched =>
    LET B == Buckets
    IN  HasExact(B, Target)
          => found = Some(First({i \in Positions : IsExactBucket(B, i, Target)}))

\* C3: with no exact bucket of the value and at least one range that holds
\* it, the outcome returned is a range that holds the value, of least width,
\* and the first such in input order.
NarrowestRanges(B, v) ==
  {i \in DOMAIN B : IsRangeBucket(B, i, v)
     /\ \A j \in DOMAIN B : IsRangeBucket(B, j, v) => WidthOf(B, i) <= WidthOf(B, j)}

C3_NarrowestRangeWinsFirstOnTies ==
  Matched =>
    LET B == Buckets
    IN  (~HasExact(B, Target) /\ HasRange(B, Target))
          => found = Some(First(NarrowestRanges(B, Target)))

C3_Witness ==
  /\ Matched
  /\ found # NULL
  /\ LET B == Buckets
     IN  /\ ~HasExact(B, Target)
         /\ IsRangeBucket(B, Val(found), Target)
         /\ \E i \in Positions : i < Val(found) /\ IsOpenBucket(B, i, Target)
         /\ \E j \in Positions : /\ j > Val(found)
                                 /\ IsRangeBucket(B, j, Target)
                                 /\ WidthOf(B, j) = WidthOf(B, Val(found))

\* C4: an open-ended bucket is returned only when the value has no exact
\* bucket and no range that holds it, and then it is the first open-ended
\* bucket, in input order, whose condition the value satisfies.
C4_OpenEndedIsLastResort ==
  Matched =>
    LET B == Buckets
    IN  /\ (found # NULL /\ IsOpenBucket(B, Val(found), Target))
             => (~HasExact(B, Target) /\ ~HasRange(B, Target))
        /\ (~HasExact(B, Target) /\ ~HasRange(B, Target) /\ HasOpen(B, Target))
             => found = Some(First({i \in Positions : IsOpenBucket(B, i, Target)}))

C4_Witness ==
  /\ Matched
  /\ found # NULL
  /\ LET B == Buckets
     IN  /\ IsOpenBucket(B, Val(found), Target)
         /\ \E j \in Positions : /\ j > Val(found)
                                 /\ IsOpenBucket(B, j, Target)
                                 /\ marketOutcomes[j] # marketOutcomes[Val(found)]
         /\ \E i \in Positions : i < Val(found) /\ B[i] # NULL

\* C5: when no outcome matches the value (no exact bucket, no range holding
\* it, no satisfied open-ended bucket; an empty collection included), the
\* matcher returns null and the highlighted key is null.
C5_NoMatchIsNull ==
  Matched =>
    LET B == Buckets
    IN  (~HasExact(B, Target) /\ ~HasRange(B, Target) /\ ~HasOpen(B, Target))
          => (found = NULL /\ highestKey = NULL)

C5_Witness ==
  /\ Matched
  /\ found = NULL
  /\ highestKey = NULL
  /\ LET B == Buckets
     IN  /\ \E i \in Positions : B[i] # NULL /\ Val(B[i]).lower = NULL
         /\ \E i \in Positions : B[i] # NULL /\ Val(B[i]).lower # NULL
         /\ ~HasExact(B, Target) /\ ~HasRange(B, Target) /\ ~HasOpen(B, Target)

\* C6: a label without any integer (null and empty labels included) parses
\* to null; an outcome that does not parse is never returned; and a payload
\* that differs only by an unparseable outcome inserted or removed at any
\* position gets the same outcome returned.
HasNoInteger(t) == t = NULL \/ \A k \in 1..Len(Val(t)) : Val(t)[k] \notin Digits

Shifted(f, p, d) ==
  IF f = NULL THEN NULL ELSE IF Val(f) >= p THEN Some(Val(f) + d) ELSE f

UnparseableIgnored ==
  rendered =>
    LET B == Buckets
    IN  /\ \A i \in Positions : HasNoInteger(marketOutcomes[i].title) => B[i] = NULL
        /\ found # NULL => B[Val(found)] # NULL

UnparseableInsertedOrRemoved ==
  rendered =>
    /\ \A p \in 1..(Len(marketOutcomes) + 1) : \A u \in UnparseableOutcomes :
         marketOutcomes' = InsertAt(marketOutcomes, p, u)
           => found' = Shifted(found, p, 1)
    /\ \A p \in Positions :
         (/\ marketOutcomes' = RemoveAt(marketOutcomes, p)
          /\ parseOutcomeTitle(marketOutcomes[p].title) = NULL)
           => found' = Shifted(found, p, -1)

C6_UnparseableOutcomesAreIgnored ==
  []UnparseableIgnored /\ [][UnparseableInsertedOrRemoved]_vars

C6_Witness ==
  /\ Matched
  /\ found # NULL
  /\ \E i \in Positions : i < Val(found) /\ marketOutcomes[i].title = NULL
  /\ \E i \in Positions : i < Val(found) /\ marketOutcomes[i].title = Some(<<>>)

(***************************************************************************)
(* Trend queries answered by the Resampler (specification SpecResample).   *)
(* The store holds snapshots at increasing times; a query names a window,  *)
(* an interval and a fill mode.  Small windows cover every arrangement of  *)
(* snapshots and anchors; the full day is queried at its real size.        *)
(***************************************************************************)
MaxTime == 5
MaxSnapshots == 3
MaxInterval == 3

\* the quote stored with the snapshot captured at t, in cents
QuoteAt(t) == (37 * t) % 100

RECURSIVE SortedSnapshots(_)
SortedSnapshots(times) ==
  IF times = {} THEN <<>>
  ELSE LET t == CHOOSE x \in times : \A y \in times : x <= y
       IN  <<Snapshot(t, QuoteAt(t))>> \o SortedSnapshots(times \ {t})

SnapshotStores ==
  {SortedSnapshots(T) : T \in {U \in SUBSET (0..MaxTime) : Cardinality(U) <= MaxSnapshots}}

SmallQueries ==
  [store : SnapshotStores, start : 0..MaxTime, end : 0..MaxTime,
   interval : 1..MaxInterval, mode : FillModes]

FullDayStores ==
  {<<>>, SortedSnapshots({MinutesPerDay + 5}), SortedSnapshots({7, 725, 1439})}

FullDayQueries ==
  [store : FullDayStores, start : {0}, end : {MinutesPerDay},
   interval : {15, 60}, mode : FillModes]

ResampleInit ==
  /\ \E q \in SmallQueries \cup FullDayQueries :
       /\ snapshotStore = q.store
       /\ windowStart = q.start
       /\ windowEnd = q.end
       /\ intervalMinutes = q.interval
       /\ fillMode = q.mode
  /\ response = NULL
  /\ NoDashboard
  /\ NoLabel
  /\ NoTrends
  /\ NoPage

\* GET /api/trends: the query is answered
Resample ==
  /\ response = NULL
  /\ response' = Some(trendQuery(snapshotStore, windowStart, windowEnd,
                                 intervalMinutes, fillMode))
  /\ UNCHANGED <<snapshotStore, windowStart, windowEnd, intervalMinutes, fillMode>>
  /\ UNCHANGED parseVars
  /\ UNCHANGED matchVars
  /\ UNCHANGED trendVars
  /\ UNCHANGED pageVars

ResampleNext == Resample
SpecResample == ResampleInit /\ [][ResampleNext]_vars

Answered == response # NULL
ValidWindow == windowStart < windowEnd
CeilDiv(a, b) == (a + b - 1) \div b
AnchorCount == CeilDiv(windowEnd - windowStart, intervalMinutes)
TimesOf(snaps) == {snaps[k].captured_at : k \in 1..Len(snaps)}
WindowTimes == {t \in TimesOf(snapshotStore) : windowStart <= t /\ t < windowEnd}
Latest(times) == CHOOSE t \in times : \A u \in times : u <= t
NullPoint(pt) == pt.captured_at = NULL /\ pt.yes_best_ask = NULL
PointFrom(pt, t) == pt.captured_at = Some(t) /\ pt.yes_best_ask = Some(QuoteAt(t))

C14_CarryNeverLooksAhead ==
  (Answered /\ ValidWindow /\ fillMode = "carry") =>
    LET r == Val(response)
        Before(a) == {t \in WindowTimes : t <= a}
    IN  /\ \A i \in 1..Len(r.series) :
             IF Before(r.series[i].anchor) = {} THEN NullPoint(r.series[i])
             ELSE PointFrom(r.series[i], Latest(Before(r.series[i].anchor)))
        /\ r.coverage.missing_points =
             Cardinality({i \in 1..Len(r.series) : Before(r.series[i].anchor) = {}})

C14_Witness ==
  /\ Answered
  /\ ValidWindow
  /\ fillMode = "carry"
  /\ LET r == Val(response) IN
       \E i, j \in 1..Len(r.series) :
         /\ i < j
         /\ NullPoint(r.series[i])
         /\ r.series[j].captured_at # NULL
         /\ Val(r.series[j].captured_at) < r.series[j].anchor
         /\ \E t \in WindowTimes :
              r.series[j].anchor < t /\ t < r.series[j].anchor + intervalMinutes

\* C15: in closest mode every anchor gets a snapshot at the least distance
\* from it among all snapshots, provided that distance is within the
\* tolerance (half the interval); with no snapshot within the tolerance the
\* point's fields are null and the point is counted in missing_points, by
\* the same tolerance.
C15_ClosestWithinTolerance ==
  (Answered /\ ValidWindow /\ fillMode = "closest") =>
    LET r == Val(response)
        times == WindowTimes
        Within(a) == {t \in times : 2 * Abs(t - a) <= intervalMinutes}
    IN  /\ \A i \in 1..Len(r.series) :
             LET pt == r.series[i] IN
               IF Within(pt.anchor) = {} THEN NullPoint(pt)
               ELSE \E t \in Within(pt.anchor) :
                      /\ PointFrom(pt, t)
                      /\ \A u \in times : Abs(t - pt.anchor) <= Abs(u - pt.anchor)
        /\ r.coverage.missing_points =
             Cardinality({i \in 1..Len(r.series) : Within(r.series[i].anchor) = {}})

C15_Witness ==
  /\ Answered
  /\ ValidWindow
  /\ fillMode = "closest"
  /\ LET r == Val(response) IN
       /\ \E i \in 1..Len(r.series) :
            /\ r.series[i].captured_at # NULL
            /\ Val(r.series[i].captured_at) > r.series[i].anchor
            /\ \E u \in WindowTimes : u < r.series[i].anchor
       /\ \E j \in 1..Len(r.series) : NullPoint(r.series[j])

C17_InvalidWindowFails ==
  (Answered /\ ~ValidWindow) =>
    LET r == Val(response) IN
      /\ ~r.ok
      /\ r.error # ""
      /\ r.series = <<>>

C17_Witness ==
  /\ Answered
  /\ windowEnd < windowStart
  /\ snapshotStore # <<>>

C19_CarryIsMonotonic ==
  (Answered /\ ValidWindow /\ fillMode = "carry") =>
    LET r == Val(response) IN
      \A i \in 1..(Len(r.series) - 1) :
        r.series[i].captured_at # NULL =>
          /\ r.series[i + 1].captured_at # NULL
          /\ Val(r.series[i].captured_at) <= Val(r.series[i + 1].captured_at)

C19_Witness ==
  /\ Answered
  /\ ValidWindow
  /\ fillMode = "carry"
  /\ LET r == Val(response) IN
       \E i \in 1..(Len(r.series) - 2) :
         /\ r.series[i].captured_at # NULL
         /\ r.series[i + 1].captured_at = r.series[i].captured_at
         /\ r.series[i + 2].captured_at # NULL
         /\ Val(r.series[i + 1].captured_at) < Val(r.series[i + 2].captured_at)

(***************************************************************************)
(* The trend explorer (specification SpecTrend): the filters, the two      *)
(* watchers and the three fetch functions.  A fetch in flight is an entry  *)
(* of calls; its answer may arrive at any time after it was issued, in any *)
(* order with the others.  A change made in the page and the watcher run   *)
(* it causes form one step, as do an answer and the rest of the async      *)
(* function that awaited it: no other event is handled in between.         *)
(***************************************************************************)
MaxChanges == 2

IntervalOptions_Extended == {1, 5, 15, 30, 60, 120}

\* the options of the interval select, lines 339-345
IntervalOptions == {1, 5, 15, 30, 60}

\* what may be typed into the start and end inputs
StartTexts == {"12:00", "1"}
EndTexts == {"16:00"}

\* what the server knows: the dates, and the markets of each date
ServerDates == <<"d2", "d1">>
MarketsOf(date) == IF date = "d1" THEN <<"m1", "m2">> ELSE <<"m2">>
DefaultMarketOf(date) == IF date = "d1" THEN Some("m1") ELSE NULL
ApiError == Some("API 500")

trendParams_MarketAlwaysSet(date, marketId, start, end, interval, mode) ==
  [date_kst |-> date,
   market_id |-> Some(marketId),
   start_kst |-> start,
   end_kst |-> end,
   interval_minutes |-> NatText(interval),
   mode |-> mode]

\* fetchTrendSeries, lines 1421-1427: the query string
trendParams(date, marketId, start, end, interval, mode) ==
  [date_kst |-> date,
   market_id |-> IF marketId # "" THEN Some(marketId) ELSE NULL,
   start_kst |-> start,
   end_kst |-> end,
   interval_minutes |-> NatText(interval),
   mode |-> mode]

NoParams == trendParams("", "", "", "", 0, "")

datesCall == [await |-> "dates", date |-> "", params |-> NoParams]
marketsCall(date) == [await |-> "markets", date |-> date, params |-> NoParams]
seriesCall(params) == [await |-> "series", date |-> params.date_kst, params |-> params]

\* the answer of the server to a trend request, named by the request
answerTo(params) ==
  [series |-> <<params>>, coverage |-> Some(params), temp_source |-> Some(params.date_kst)]

Contains(q, x) == \E k \in 1..Len(q) : q[k] = x

\* fetchTrendSeries up to its fetch, called n times in a row with the filters
\* as they are after the step
StartSeries(inFlight, n) ==
  IF trendDate' = NULL \/ n = 0
  THEN /\ calls' = inFlight
       /\ UNCHANGED <<trendLoading, trendError>>
  ELSE LET call == seriesCall(trendParams(Val(trendDate'), trendMarketId', trendStart',
                                          trendEnd', trendInterval', trendMode'))
       IN  /\ calls' = inFlight \o (IF n = 1 THEN <<call>> ELSE <<call, call>>)
           /\ trendLoading' = TRUE
           /\ trendError' = NULL

\* a filter was changed in the page: the watcher of lines 1488-1494 runs
FilterChanged ==
  /\ changes < MaxChanges
  /\ changes' = changes + 1
  /\ StartSeries(calls, 1)
  /\ UNCHANGED <<marketVars, resultVars>>
  /\ UNCHANGED <<parseVars, matchVars, resampleVars, pageVars>>

TrendInit ==
  /\ TrendDefaults
  /\ calls = <<datesCall>>
  /\ changes = 0
  /\ NoDashboard
  /\ NoLabel
  /\ NoQuery
  /\ NoPage

SelectInterval ==
  /\ \E v \in IntervalOptions : v # trendInterval /\ trendInterval' = v
  /\ UNCHANGED <<trendDate, trendMarketId, trendStart, trendEnd, trendMode>>
  /\ FilterChanged

SelectMode ==
  /\ \E v \in FillModes : v # trendMode /\ trendMode' = v
  /\ UNCHANGED <<trendDate, trendMarketId, trendStart, trendEnd, trendInterval>>
  /\ FilterChanged

SelectMarket ==
  /\ \E m \in {""} \cup {trendMarkets[k] : k \in 1..Len(trendMarkets)} :
       m # trendMarketId /\ trendMarketId' = m
  /\ UNCHANGED <<trendDate, trendStart, trendEnd, trendInterval, trendMode>>
  /\ FilterChanged

EditStart ==
  /\ \E v \in StartTexts : v # trendStart /\ trendStart' = v
  /\ UNCHANGED <<trendDate, trendMarketId, trendEnd, trendInterval, trendMode>>
  /\ FilterChanged

EditEnd ==
  /\ \E v \in EndTexts : v # trendEnd /\ trendEnd' = v
  /\ UNCHANGED <<trendDate, trendMarketId, trendStart, trendInterval, trendMode>>
  /\ FilterChanged

setFullDay ==
  /\ trendStart # "00:00" \/ trendEnd # "24:00"
  /\ trendStart' = "00:00"
  /\ trendEnd' = "24:00"
  /\ UNCHANGED <<trendDate, trendMarketId, trendInterval, trendMode>>
  /\ FilterChanged

setWindow1216 ==
  /\ trendStart # "12:00" \/ trendEnd # "16:00"
  /\ trendStart' = "12:00"
  /\ trendEnd' = "16:00"
  /\ UNCHANGED <<trendDate, trendMarketId, trendInterval, trendMode>>
  /\ FilterChanged

\* the date select; the watcher of lines 1479-1486 calls fetchTrendMarkets
SelectDate ==
  /\ changes < MaxChanges
  /\ changes' = changes + 1
  /\ \E k \in 1..Len(trendDates) :
       /\ trendDate # Some(trendDates[k])
       /\ trendDate' = Some(trendDates[k])
       /\ calls' = Append(calls, marketsCall(trendDates[k]))
  /\ UNCHANGED <<trendMarketId, trendStart, trendEnd, trendInterval, trendMode>>
  /\ UNCHANGED <<marketVars, resultVars, trendLoading, trendError>>
  /\ UNCHANGED <<parseVars, matchVars, resampleVars, pageVars>>

\* fetchTrendDates, lines 1386-1391, then the date watcher if a date was set
DatesAnswered ==
  \E i \in 1..Len(calls), dates \in {ServerDates, <<>>} :
    /\ calls[i].await = "dates"
    /\ trendDates' = dates
    /\ IF trendDate = NULL /\ Len(dates) > 0
       THEN /\ trendDate' = Some(dates[1])
            /\ calls' = Append(RemoveAt(calls, i), marketsCall(dates[1]))
       ELSE /\ trendDate' = trendDate
            /\ calls' = RemoveAt(calls, i)
    /\ trendError' = NULL
    /\ UNCHANGED <<trendMarketId, trendStart, trendEnd, trendInterval, trendMode>>
    /\ UNCHANGED <<trendMarkets, trendDefaultMarketId, resultVars, trendLoading, changes>>
    /\ UNCHANGED <<parseVars, matchVars, resampleVars, pageVars>>

\* fetchTrendDates, lines 1392-1394
DatesFailed ==
  \E i \in 1..Len(calls) :
    /\ calls[i].await = "dates"
    /\ trendError' = ApiError
    /\ calls' = RemoveAt(calls, i)
    /\ UNCHANGED <<filterVars, marketVars, resultVars, trendLoading, changes>>
    /\ UNCHANGED <<parseVars, matchVars, resampleVars, pageVars>>

MarketsAnswered_KeepsSelection ==
  \E i \in 1..Len(calls) :
    /\ calls[i].await = "markets"
    /\ trendMarkets' = MarketsOf(calls[i].date)
    /\ trendDefaultMarketId' = DefaultMarketOf(calls[i].date)
    /\ UNCHANGED filterVars
    /\ StartSeries(RemoveAt(calls, i), 1)
    /\ UNCHANGED <<trendDates, resultVars, changes>>
    /\ UNCHANGED <<parseVars, matchVars, resampleVars, pageVars>>

\* fetchTrendMarkets, lines 1402-1410; a reset of trendMarketId runs the
\* parameter watcher; then the date watcher goes on to fetchTrendSeries
MarketsAnswered ==
  \E i \in 1..Len(calls) :
    /\ calls[i].await = "markets"
    /\ trendMarkets' = MarketsOf(calls[i].date)
    /\ trendDefaultMarketId' = DefaultMarketOf(calls[i].date)
    /\ trendMarketId' =
         IF trendMarketId # "" /\ ~Contains(trendMarkets', trendMarketId) THEN ""
         ELSE trendMarketId
    /\ UNCHANGED <<trendDate, trendStart, trendEnd, trendInterval, trendMode>>
    /\ StartSeries(RemoveAt(calls, i), IF trendMarketId' # trendMarketId THEN 2 ELSE 1)
    /\ UNCHANGED <<trendDates, resultVars, changes>>
    /\ UNCHANGED <<parseVars, matchVars, resampleVars, pageVars>>

\* fetchTrendMarkets, lines 1411-1413, then the date watcher goes on
MarketsFailed ==
  \E i \in 1..Len(calls) :
    /\ calls[i].await = "markets"
    /\ UNCHANGED filterVars
    /\ IF trendDate = NULL
       THEN trendError' = ApiError /\ calls' = RemoveAt(calls, i) /\ UNCHANGED trendLoading
       ELSE StartSeries(RemoveAt(calls, i), 1)
    /\ UNCHANGED <<marketVars, resultVars, changes>>
    /\ UNCHANGED <<parseVars, matchVars, resampleVars, pageVars>>

\* fetchTrendSeries, lines 1429-1436 and 1442-1444
SeriesAnswered ==
  \E i \in 1..Len(calls) :
    /\ calls[i].await = "series"
    /\ trendSeries' = answerTo(calls[i].params).series
    /\ trendCoverage' = answerTo(calls[i].params).coverage
    /\ trendTempSource' = answerTo(calls[i].params).temp_source
    /\ trendError' = NULL
    /\ trendLoading' = FALSE
    /\ calls' = RemoveAt(calls, i)
    /\ UNCHANGED <<filterVars, marketVars, changes>>
    /\ UNCHANGED <<parseVars, matchVars, resampleVars, pageVars>>

\* fetchTrendSeries, lines 1437-1444
SeriesFailed ==
  \E i \in 1..Len(calls) :
    /\ calls[i].await = "series"
    /\ trendError' = ApiError
    /\ trendSeries' = <<>>
    /\ trendCoverage' = NULL
    /\ trendTempSource' = NULL
    /\ trendLoading' = FALSE
    /\ calls' = RemoveAt(calls, i)
    /\ UNCHANGED <<filterVars, marketVars, changes>>
    /\ UNCHANGED <<parseVars, matchVars, resampleVars, pageVars>>

TrendNext ==
  \/ SelectInterval \/ SelectMode \/ SelectMarket \/ SelectDate
  \/ EditStart \/ EditEnd \/ setFullDay \/ setWindow1216
  \/ DatesAnswered \/ DatesFailed
  \/ MarketsAnswered \/ MarketsFailed
  \/ SeriesAnswered \/ SeriesFailed

SpecTrend == TrendInit /\ [][TrendNext]_vars

WireIntervals == {<<"1">>, <<"5">>, <<"1", "5">>, <<"3", "0">>, <<"6", "0">>}
WireModes == {"closest", "carry"}

\* C20: every trend request issued by fetchTrendSeries, after any sequence
\* of filter changes, carries interval_minutes in {1, 5, 15, 30, 60} and
\* mode in {closest, carry}.
C20_RequestsCarryKnownIntervalAndMode ==
  \A i \in 1..Len(calls) :
    calls[i].await = "series" =>
      /\ calls[i].params.interval_minutes \in WireIntervals
      /\ calls[i].params.mode \in WireModes

C20_Witness ==
  /\ changes = MaxChanges
  /\ \E i \in 1..Len(calls) :
       /\ calls[i].await = "series"
       /\ calls[i].params.interval_minutes = <<"6", "0">>
       /\ calls[i].params.mode = "carry"

\* the requests issued by a step: a change in the page removes no call, the
\* arrival of an answer removes the call it answers
Issued ==
  IF changes' # changes THEN SubSeq(calls', Len(calls) + 1, Len(calls'))
  ELSE SubSeq(calls', Len(calls), Len(calls'))

MarketsLoaded ==
  /\ trendDate # NULL
  /\ trendMarkets = MarketsOf(Val(trendDate))

AllCompleted == calls = <<>>

\* the request fetchTrendSeries would build from the filters as they are
CurrentParams ==
  trendParams(Val(trendDate), trendMarketId, trendStart, trendEnd, trendInterval, trendMode)

\* C22: once every overlapping fetchTrendSeries request has completed, and
\* the one that completed last succeeded, trendSeries and trendCoverage are
\* those of the response to the request made with the current filter values,
\* whatever order the responses arrived in.
C22_CompletedRequestsShowCurrentFilters ==
  (AllCompleted /\ trendDate # NULL /\ trendSeries # <<>>) =>
    /\ trendSeries = answerTo(CurrentParams).series
    /\ trendCoverage = answerTo(CurrentParams).coverage

SeriesInFlight == \E i \in 1..Len(calls) : calls[i].await = "series"

\* C26: trendLoading is true whenever at least one fetchTrendSeries request
\* is in flight and false once every request has completed, with or without
\* an error, also when requests overlap.
C26_LoadingTracksInFlight == trendLoading <=> SeriesInFlight

SelectionIsValid == trendMarketId = "" \/ Contains(trendMarkets, trendMarketId)

MaxDay == 2

KstDays == 1..MaxDay
NotifiedWholes == {NULL, Some(MaxHigh - 1), Some(MaxHigh)}
NotifiedHighs == {NULL, Some(10 * (MaxHigh - 1) + 2), Some(10 * (MaxHigh - 1) + 8)}

\* what an earlier visit of the page may have left in localStorage
StoredNotifications ==
  {NULL} \cup {Some([date |-> Some(d), value |-> Some(v)]) :
                 d \in {0, 1},
                 v \in {10 * (MaxHigh - 1), 10 * (MaxHigh - 1) + 8}}

\* onMounted, lines 1464-1476: loadSoundPreference has read the sound item
NotifyInit ==
  /\ notifyStored \in StoredNotifications
  /\ soundStored \in {NULL, Some("true")}
  /\ soundEnabled = (soundStored = Some("true"))
  /\ audioContext = "none"
  /\ soundCalls = <<>>
  /\ kstDate = NULL
  /\ lastNotifiedDate = NULL
  /\ lastNotifiedHigh = NULL
  /\ notifyStateLoaded = FALSE
  /\ restored = NULL
  /\ runHigh = NULL
  /\ NoNotice
  /\ SeriesDefaults
  /\ mounted = TRUE
  /\ emitted = {}
  /\ NoDashboard
  /\ NoLabel
  /\ NoQuery
  /\ NoTrends

\* a poll: load with the payload it fetched
Poll ==
  \E d \in KstDays, whole \in NotifiedWholes, high \in NotifiedHighs,
     readable \in BOOLEAN, writable \in BOOLEAN :
    /\ IF kstDate = NULL THEN TRUE ELSE d >= Val(kstDate)
    /\ notifyStateLoaded => readable
    /\ load(Payload(d, whole, high, <<>>), readable, writable)

NotifyNext == Poll

SpecNotify == NotifyInit /\ [][NotifyNext]_vars

\* the signal of the payload the dashboard shows
Signal == signalOf(dayHighCelsiusWhole, dayHigh)

\* the payload received by a step belongs to the run of the one before it
SameRun == kstDate # NULL /\ kstDate' = kstDate

\* what a notification consists of
Notification == {"notice", "browser"} \cup (IF soundEnabled THEN {"beep"} ELSE {})

\* the high restored from localStorage for the date of the payload received
RestoredHigh ==
  IF restored' # NULL /\ Val(restored').date = kstDate'
  THEN Val(restored').value ELSE NULL

Notifies(baseline) ==
  /\ emitted' \in {{}, Notification}
  /\ emitted' # {} <=>
       (IsNumber(Signal') /\ IsNumber(baseline) /\ Val(Signal') > Val(baseline))

HighNeverDecreases ==
  (SameRun /\ IsNumber(lastNotifiedHigh) /\ IsNumber(lastNotifiedHigh')) =>
    Val(lastNotifiedHigh') >= Val(lastNotifiedHigh)

\* C23 as stated: within a run of payloads of one kstDate a payload notifies
\* exactly when its signal exceeds the highest signal of the earlier
\* payloads of the run; the first payload of a run never notifies, a
\* repeated or lower value never notifies, lastNotifiedHigh never decreases.
C23_Original_NotifiesAboveRunHigh ==
  [][Poll => /\ Notifies(IF SameRun THEN runHigh ELSE NULL)
             /\ HighNeverDecreases]_vars

\* C23: within a run of payloads of one kstDate a payload notifies exactly
\* when its signal exceeds the highest of the signals of the earlier
\* payloads of the run and of the high restored from localStorage for that
\* kstDate; without any of these it does not notify, and lastNotifiedHigh
\* never decreases during the run once lastNotifiedDate is the run's date.
C23_NotifiesAboveRunAndRestoredHigh ==
  [][Poll => /\ Notifies(Higher(IF SameRun THEN runHigh ELSE NULL, RestoredHigh))
             /\ (lastNotifiedDate = kstDate => HighNeverDecreases)]_vars

\* the third payload of a run notified: it is above the two before it
C23_Witness ==
  /\ emitted # {}
  /\ restored = NULL
  /\ dayHighCelsiusWhole = Some(MaxHigh)
  /\ runHigh = Some(10 * MaxHigh)
  /\ lastNotifiedHigh = runHigh
  /\ highNotice = Some("New winning bucket")

\* the pair maybeNotifyNewHigh works with once loadNotifyState has run
PairBefore ==
  IF notifyStateLoaded THEN [date |-> lastNotifiedDate, value |-> lastNotifiedHigh]
  ELSE IF restored' # NULL THEN Val(restored')
  ELSE [date |-> NULL, value |-> NULL]

PairAfter == [date |-> lastNotifiedDate', value |-> lastNotifiedHigh']

DateChanged == kstDate' # PairBefore.date

\* C24 as stated: whenever the payload's kstDate differs from
\* lastNotifiedDate the pair becomes (kstDate, signal), is persisted and
\* nothing is emitted; after every call that changed the pair the persisted
\* pair equals the pair in memory.
C24_Original_DateChangeSetsAndPersists ==
  [][Poll => /\ DateChanged => /\ PairAfter = [date |-> kstDate', value |-> Signal']
                               /\ notifyStored' = Some(PairAfter)
                               /\ emitted' = {}
             /\ PairAfter # PairBefore => notifyStored' = Some(PairAfter)]_vars

\* C24: whenever the payload has a numeric signal and its kstDate differs
\* from lastNotifiedDate the pair becomes (kstDate, signal) and nothing is
\* emitted, even when the signal is above the high notified before; a
\* payload without a numeric signal changes nothing; after every call that
\* changed the pair the persisted pair equals the pair in memory, unless
\* writing localStorage threw, and then the stored item is as it was.
C24_DateChangeWithSignalSetsAndPersists ==
  [][Poll => /\ (DateChanged /\ IsNumber(Signal')) =>
                  /\ PairAfter = [date |-> kstDate', value |-> Signal']
                  /\ emitted' = {}
             /\ ~IsNumber(Signal') =>
                  /\ PairAfter = PairBefore
                  /\ notifyStored' = notifyStored
                  /\ emitted' = {}
             /\ PairAfter # PairBefore =>
                  \/ notifyStored' = Some(PairAfter)
                  \/ notifyStored' = notifyStored]_vars

\* the first signal of a new date is above the high stored for the day
\* before: it was recorded and persisted and nothing was emitted
C24_Witness ==
  /\ restored = Some([date |-> Some(0), value |-> Some(10 * (MaxHigh - 1))])
  /\ kstDate = Some(1)
  /\ dayHighCelsiusWhole = Some(MaxHigh)
  /\ lastNotifiedDate = Some(1)
  /\ lastNotifiedHigh = Some(10 * MaxHigh)
  /\ notifyStored = Some([date |-> Some(1), value |-> Some(10 * MaxHigh)])
  /\ highNotice = NULL
  /\ emitted = {}

(***************************************************************************)
(* The controls of the page (specification SpecPage): the sound button,    *)
(* the test button (the page was opened with ?notify=button), the four     *)
(* series checkboxes, the timeout of the notice and the unmounting of the  *)
(* component.  A call of toggleSound that is suspended at an await is an   *)
(* entry of soundCalls: "resume" while ensureAudioContext awaits           *)
(* audioContext.resume(), "suspend" while toggleSound awaits               *)
(* audioContext.suspend().  The audio context keeps its state until the    *)
(* promise of suspend() or resume() is settled, and the promises are       *)
(* settled in the order of the calls.                                      *)
(***************************************************************************)
MaxSoundCalls == 2

PageInit ==
  /\ NoPage
  /\ NoDashboard
  /\ NoLabel
  /\ NoQuery
  /\ NoTrends

\* the variables the controls of the page leave alone
restVars == <<parseVars, matchVars, resampleVars, trendVars, notifyVars>>

\* lines 1635-1645: localStorage.setItem may throw, which is ignored
persistSoundPreference(writable) ==
  soundStored' = IF writable
                 THEN Some(IF soundEnabled' THEN "true" ELSE "false")
                 ELSE soundStored

\* lines 1606-1620: a beep is played only by a running context
playBeep(state) == IF state = "running" THEN {"beep"} ELSE {}

\* toggleSound from line 1657 on, with the context ensureAudioContext returned
\* in the given state
soundOn(state, writable) ==
  IF state # "running"
  THEN /\ showHighNotice("Sound blocked")
       /\ emitted' = {"notice"}
       /\ UNCHANGED <<soundEnabled, soundStored>>
  ELSE /\ soundEnabled' = TRUE
       /\ persistSoundPreference(writable)
       /\ emitted' = playBeep(state)
       /\ UNCHANGED noticeVars

\* a click on the sound button: toggleSound up to its first await that
\* waits for the audio context, lines 1647-1656, with ensureAudioContext,
\* lines 1591-1604; a context is created suspended or running
toggleSound ==
  /\ mounted
  /\ Len(soundCalls) < MaxSoundCalls
  /\ \E writable \in BOOLEAN, created \in {"suspended", "running"} :
       IF soundEnabled
       THEN /\ soundEnabled' = FALSE
            /\ persistSoundPreference(writable)
            /\ soundCalls' = IF audioContext = "running"
                             THEN Append(soundCalls, "suspend") ELSE soundCalls
            /\ emitted' = {}
            /\ UNCHANGED <<audioContext, noticeVars>>
       ELSE /\ audioContext' = IF audioContext = "none" THEN created ELSE audioContext
            /\ IF audioContext' = "suspended"
               THEN /\ soundCalls' = Append(soundCalls, "resume")
                    /\ emitted' = {}
                    /\ UNCHANGED <<soundEnabled, soundStored, noticeVars>>
               ELSE /\ soundOn(audioContext', writable)
                    /\ UNCHANGED soundCalls
  /\ UNCHANGED <<seriesVars, mounted, restVars>>

\* the promise of the oldest audioContext.suspend() is fulfilled: the
\* context is suspended and toggleSound returns, lines 1651-1654
SuspendSettled ==
  /\ soundCalls # <<>>
  /\ Head(soundCalls) = "suspend"
  /\ audioContext' = "suspended"
  /\ soundCalls' = Tail(soundCalls)
  /\ emitted' = {}
  /\ UNCHANGED <<soundEnabled, soundStored, noticeVars, seriesVars, mounted, restVars>>

\* the promise of the oldest audioContext.resume() is settled: fulfilled
\* with the context running, fulfilled with the context still suspended, or
\* rejected, which ends toggleSound at line 1655
ResumeSettled ==
  /\ soundCalls # <<>>
  /\ Head(soundCalls) = "resume"
  /\ soundCalls' = Tail(soundCalls)
  /\ \E writable \in BOOLEAN, outcome \in {"running", "suspended", "rejected"} :
       IF outcome = "rejected"
       THEN /\ emitted' = {}
            /\ UNCHANGED <<soundEnabled, soundStored, audioContext, noticeVars>>
       ELSE /\ audioContext' = outcome
            /\ soundOn(outcome, writable)
  /\ UNCHANGED <<seriesVars, mounted, restVars>>

\* a click on the test button, lines 1712-1719
triggerTestNotification ==
  /\ mounted
  /\ showHighNotice("Test notification: new day high")
  /\ emitted' = {"notice", "browser"} \cup
                 (IF soundEnabled THEN playBeep(audioContext) ELSE {})
  /\ UNCHANGED <<soundVars, seriesVars, mounted, restVars>>

\* one of the four checkboxes is clicked and the watcher of lines 1496-1502
\* runs before the page is rendered
SeriesShown_NoWatcher(yesAsk, yesBid, noAsk, noBid) ==
  <<yesAsk, yesBid, noAsk, noBid>>

SeriesShown(yesAsk, yesBid, noAsk, noBid) ==
  IF yesAsk \/ yesBid \/ noAsk \/ noBid
  THEN <<yesAsk, yesBid, noAsk, noBid>>
  ELSE <<TRUE, yesBid, noAsk, noBid>>

Flipped(flags, k) == [flags EXCEPT ![k] = ~flags[k]]

ToggleSeries ==
  /\ mounted
  /\ \E k \in 1..4 :
       /\ showYesAsk' = SeriesShown(Flipped(seriesVars, k)[1], Flipped(seriesVars, k)[2],
                                    Flipped(seriesVars, k)[3], Flipped(seriesVars, k)[4])[1]
       /\ showYesBid' = Flipped(seriesVars, k)[2]
       /\ showNoAsk' = Flipped(seriesVars, k)[3]
       /\ showNoBid' = Flipped(seriesVars, k)[4]
  /\ emitted' = {}
  /\ UNCHANGED <<soundVars, noticeVars, mounted, restVars>>

\* time passes: a third of the delay of the notice
Tick ==
  /\ timeouts' = {[id |-> t.id,
                    left |-> IF t.left > NoticeDelay \div TicksPerNotice
                             THEN t.left - NoticeDelay \div TicksPerNotice ELSE 0] :
                   t \in timeouts}
  /\ noticeAge' = IF noticeAge + NoticeDelay \div TicksPerNotice < NoticeDelay
                   THEN noticeAge + NoticeDelay \div TicksPerNotice ELSE NoticeDelay
  /\ UNCHANGED <<highNotice, noticeTimer, soundVars, seriesVars, mounted, emitted, restVars>>

\* a timeout set at line 1574 has run out: its callback clears the notice
NoticeTimeout ==
  /\ \E t \in timeouts :
       /\ t.left = 0
       /\ timeouts' = timeouts \ {t}
  /\ highNotice' = NULL
  /\ emitted' = {}
  /\ UNCHANGED <<noticeTimer, noticeAge, soundVars, seriesVars, mounted, restVars>>

\* onBeforeUnmount, lines 1505-1514: the timer of the notice is cleared
Unmount ==
  /\ mounted
  /\ mounted' = FALSE
  /\ timeouts' = {t \in timeouts : t.id # noticeTimer}
  /\ emitted' = {}
  /\ UNCHANGED <<highNotice, noticeTimer, noticeAge, soundVars, seriesVars, restVars>>

PageNext ==
  \/ toggleSound
  \/ SuspendSettled
  \/ ResumeSettled
  \/ triggerTestNotification
  \/ ToggleSeries
  \/ Tick
  \/ NoticeTimeout
  \/ Unmount

SpecPage == PageInit /\ [][PageNext]_vars

\* the preference loadSoundPreference would read, line 1626
persistedPreference == soundStored = Some("true")

\* C25: starting with sound disabled, once every call of toggleSound has
\* run to completion, soundEnabled is true only if the audio context is
\* running, and the persisted preference equals soundEnabled.
C25_SoundOnOnlyWhileContextRuns ==
  soundCalls = <<>> =>
    /\ soundEnabled => audioContext = "running"
    /\ persistedPreference <=> soundEnabled

\* some series is shown
AnySeries(flags) == flags[1] \/ flags[2] \/ flags[3] \/ flags[4]

\* C29: after any sequence of clicks on the four checkboxes at least one of
\* showYesAsk, showYesBid, showNoAsk, showNoBid is true: turning the last
\* one off turns YES ask on, and a click that leaves one on changes no
\* other flag.
C29_SomeSeriesIsAlwaysShown ==
  /\ [](showYesAsk \/ showYesBid \/ showNoAsk \/ showNoBid)
  /\ [][ToggleSeries =>
         \E k \in 1..4 :
           seriesVars' = IF AnySeries(Flipped(seriesVars, k))
                         THEN Flipped(seriesVars, k)
                         ELSE <<TRUE, FALSE, FALSE, FALSE>>]_vars

\* YES ask was turned off while NO bid was shown; the click that turns NO
\* bid off turns YES ask on
C29_Witness ==
  /\ showNoBid
  /\ ~showYesAsk
  /\ ~showYesBid
  /\ ~showNoAsk
  /\ ENABLED (ToggleSeries /\ showYesAsk' /\ ~showNoBid')

\* timers run: time passes, and a timeout that has run out calls back
SpecPageLive ==
  /\ PageInit
  /\ [][PageNext]_vars
  /\ WF_vars(Tick)
  /\ WF_vars(NoticeTimeout)

\* a step in which showHighNotice was called
ShowsNotice == highNotice' # NULL /\ noticeAge' = 0 /\ noticeTimer' # noticeTimer

\* a step in which the notice was removed
ClearsNotice == highNotice # NULL /\ highNotice' = NULL

SpecAgree == MatchInit /\ [][MatchNext]_vars

\* the outcome at position i satisfies the predicate for the value
Satisfies(i) == outcomeMatchesValue(marketOutcomes[i].title, Target)

\* C27: findOutcomeForValue returns an outcome if and only if at least one
\* outcome satisfies outcomeMatchesValue for the value, and the outcome it
\* returns satisfies it.
C27_MatcherAgreesWithPredicate ==
  Matched => IF found = NULL THEN \A i \in Positions : ~Satisfies(i)
             ELSE Satisfies(Val(found))

\* an open-ended bucket was returned while an outcome that does not parse
\* and an outcome that does not hold the value stand before it
C27_Witness ==
  /\ Matched
  /\ found = Some(3)
  /\ Satisfies(3)
  /\ ~Satisfies(1)
  /\ ~Satisfies(2)
  /\ Val(parseOutcomeTitle(marketOutcomes[3].title)).upper = NULL
  /\ \E i \in 1..2 : parseOutcomeTitle(marketOutcomes[i].title) = NULL

====
